---- MODULE Spec2Model ----
(***************************************************************************)
(* Data-access core of starspring: the SQLAlchemy gateway with its        *)
(* transaction stack (starspring/data/orm_gateway.py), the Transactional  *)
(* boundary (starspring/data/transaction.py) and the query-derivation     *)
(* parser (starspring/data/query_builder.py).                             *)
(***************************************************************************)
EXTENDS Integers, Sequences, FiniteSets, TLC

\* ------------------------------------------------------------------ bounds
\* Deepest nesting of Transactional boundaries that is explored.
MaxDepth == 2
\* Most frames the gateway's transaction stack may hold (orphans included).
MaxFrames == 2
\* Most begin_transaction / commit / rollback calls issued directly.
MaxCalls == 2
\* Most parts of a ParsedQuery that is built directly.
MaxParts == 2
\* Most accesses of the derived method's name on the repository.
MaxAccess == 2
\* Most calls of a derived method.
MaxExec == 1
\* Most positional arguments of a call.
MaxArgs == 3
\* Most units of work that are started.
MaxUnits == 2
\* Most calls of repository operations.
MaxOps == 3

\* Entity identities that the repository operations act on.
Items == {"A", "B"}
\* The lists of entities or ids handed to the batch operations: no element,
\* two elements, and one element twice.
Batches == {<<>>, <<"A", "B">>, <<"A", "A">>}
\* Entities that the interleaved units of work save.
UnitItems == {"A"}

\* Failures a unit of work may raise (subclasses of Exception).
UnitErrors == {"ValueError"}
\* Failure raised by the backend inside begin_transaction() or commit().
BackendError == "BackendError"
\* asyncio.CancelledError: a BaseException, not an Exception.
CancelledError == "CancelledError"

VARIABLES
    gw,      \* the global SQLAlchemyGateway: session, transaction stack, data
    ctl,     \* call stack of the Transactional boundaries in progress
    last,    \* how the boundary that finished most recently ended
    op,      \* name of the operation performed by the latest step
    cnt,     \* numbers of direct begin / commit / rollback calls and of
             \* repository calls
    scn,     \* how far the calls so far follow the nested-rollback scenario
    name,    \* method name handed to the parser
    parsed,  \* what QueryMethodParser.parse did with it
    gen,     \* what SQLQueryGenerator.generate did with the parsed query
    rq,      \* a StarRepository instance and its latest derived method
    env,     \* the gateway registry, its gateways and the units of work
             \* in flight on them
    ret      \* what the repository or gateway call of the latest step on gw
             \* returned or raised

vars == <<gw, ctl, last, op, cnt, scn, name, parsed, gen, rq, env, ret>>

\* ------------------------------------------------ SQLAlchemy session (2.x)
\* gw.open    : self._session is not None
\* gw.txs     : the session's chain of SessionTransactions, root first; every
\*              entry above the root is a SAVEPOINT.  snap is the data the
\*              session saw when the entry began, new the keys of the
\*              instances that became persistent inside it.
\* gw.stack   : self._transaction_stack; a frame is the position in gw.txs of
\*              the SessionTransaction that begin_transaction() appended.
\* gw.view    : rows as the statements of the session's transaction see them
\*              (flushed, maybe uncommitted)
\* gw.store   : rows committed to the backing store
\* gw.marked  : Session.deleted, the instances marked for deletion that no
\*              flush has written yet
\* gw.loaded  : keys of the persistent instances in the identity map whose
\*              attributes are loaded.  The identity map refers to them
\*              weakly: an instance stays while the application holds it.
\* gw.expired : keys of the persistent instances in the identity map whose
\*              attributes are expired (by a commit, a rollback, a refresh)
\* gw.detached: keys of the instances that close() removed from the session
\*              and the application still holds
\* gw.deactive: a flush failed; it rolled the innermost transaction back,
\*              and that transaction (the last of gw.txs) stays in place,
\*              inactive, until it is rolled back or the session is closed
\*
\* An entity handed to save, update or delete is of one of two kinds:
\*   "new"  a transient object, never attached to a session;
\*   "held" the instance of that key that the application got from the
\*          session (or holds since close()).
\* Entities carry their loaded attribute values, so a flush has no UPDATE
\* to write for them.  The backend gives a new object a key that no row
\* has.  An instance whose deletion was flushed, or that a lookup found
\* deleted, is taken to be dropped by the application.
Kinds == {"new", "held"}
\* The exceptions of SQLAlchemy that the calls on the session raise.
InvalidRequestError == "InvalidRequestError"
PendingRollbackError == "PendingRollbackError"
ObjectDeletedError == "ObjectDeletedError"
SessionErrors ==
    {InvalidRequestError, PendingRollbackError, ObjectDeletedError}

\* SQLAlchemyGateway.session: get or create the session.
session(g) == [g EXCEPT !.open = TRUE]

\* Session.in_transaction(): the session has begun a transaction.
in_transaction(g) == g.txs # <<>>

\* The rows as the session's work so far leaves them: what its statements
\* see, less the deletions that wait for the flush.
Written(g) == g.view \ g.marked

\* The session's transactions, each with what makes it one.
Transactions(g) ==
    [k \in 1..Len(g.txs) |->
        [nested |-> g.txs[k].nested, snap |-> g.txs[k].snap]]

\* The instances of the session that the application may pass as "held".
Held(g) == g.loaded \cup g.expired

\* Autobegin: any work on the session begins its root transaction.
autobegin(g) ==
    IF g.txs = <<>>
    THEN [g EXCEPT !.txs = <<[nested |-> FALSE, snap |-> g.store,
                              new |-> {}]>>]
    ELSE g

\* Session.begin(): start the root transaction explicitly.
session_begin(g) ==
    [g EXCEPT !.txs = <<[nested |-> FALSE, snap |-> g.store, new |-> {}]>>]

\* Session.flush() that completes: the pending deletions are written; the
\* instances leave the identity map.  A DELETE that matches no row is only
\* warned about.
session_flush(g) ==
    [g EXCEPT !.view = @ \ g.marked, !.loaded = @ \ g.marked,
              !.expired = @ \ g.marked, !.marked = {},
              !.txs = [k \in 1..Len(g.txs) |->
                          [g.txs[k] EXCEPT !.new = @ \ g.marked]]]

\* The instances that became persistent in the transaction at position h or
\* in one above it.
NewIn(g, h) == UNION {g.txs[k].new : k \in h..Len(g.txs)}

\* The instance of key e became persistent in the innermost transaction; it
\* takes the place of an instance of that key the session still had.
Registered(g, e) ==
    [g EXCEPT !.txs = [k \in 1..Len(g.txs) |->
                          IF k = Len(g.txs)
                          THEN [g.txs[k] EXCEPT !.new = @ \cup {e}]
                          ELSE [g.txs[k] EXCEPT !.new = @ \ {e}]],
              !.loaded = @ \cup {e}, !.expired = @ \ {e}]

\* The instance of key e leaves the identity map and the transactions'
\* records.
Removed(g, e) ==
    [g EXCEPT !.loaded = @ \ {e}, !.expired = @ \ {e},
              !.txs = [k \in 1..Len(g.txs) |->
                          [g.txs[k] EXCEPT !.new = @ \ {e}]]]

\* The application dropped its instance of key e: the identity map and the
\* transactions' records, all weak, lose it.  An instance marked for
\* deletion is kept by the session.
Dropped(g, e) == IF e \in g.marked THEN g ELSE Removed(g, e)

\* Session.begin_nested() that completes: flush, then SAVEPOINT inside the
\* current transaction.
session_begin_nested(g) ==
    LET b == session_flush(autobegin(g))
    IN  [b EXCEPT !.txs = Append(@, [nested |-> TRUE, snap |-> b.view,
                                     new |-> {}])]

\* The chain of transactions after the one at position h was released: what
\* became persistent in it belongs to its parent from then on.
Released(g, h) ==
    [k \in 1..(h - 1) |->
        IF k = h - 1 THEN [g.txs[k] EXCEPT !.new = @ \cup NewIn(g, h)]
        ELSE g.txs[k]]

\* A variant of SessionTransaction.commit() whose RELEASE SAVEPOINT also
\* makes the pending writes durable.
TxnCommitDurable(g, h) ==
    LET f == session_flush(g)
    IN  IF g.txs[h].nested
        THEN [f EXCEPT !.txs = Released(f, h), !.store = f.view]
        ELSE [f EXCEPT !.txs = <<>>, !.store = f.view,
                       !.expired = f.expired \cup f.loaded, !.loaded = {}]

\* SessionTransaction.commit() of the transaction at position h, when it
\* completes: flush, then RELEASE SAVEPOINT for a nested one, COMMIT for the
\* root.  The session was made with expire_on_commit (the default): the
\* root's commit expires every instance.
txn_commit(g, h) ==
    LET f == session_flush(g)
    IN  IF g.txs[h].nested
        THEN [f EXCEPT !.txs = Released(f, h)]
        ELSE [f EXCEPT !.txs = <<>>, !.store = f.view,
                       !.expired = f.expired \cup f.loaded, !.loaded = {}]

\* A variant of SessionTransaction.rollback() whose ROLLBACK of the root
\* transaction keeps the writes that a released savepoint had made.
TxnRollbackKeepsReleased(g, h) ==
    IF g.txs[h].nested
    THEN [g EXCEPT !.txs = SubSeq(@, 1, h - 1), !.view = g.txs[h].snap,
                   !.marked = {}, !.loaded = @ \ NewIn(g, h),
                   !.expired = @ \ NewIn(g, h), !.deactive = FALSE]
    ELSE [g EXCEPT !.txs = <<>>, !.store = g.view \ g.marked,
                   !.view = g.view \ g.marked, !.marked = {},
                   !.expired = Held(g) \ NewIn(g, 1), !.loaded = {},
                   !.deactive = FALSE]

\* SessionTransaction.rollback() of the transaction at position h: ROLLBACK
\* TO SAVEPOINT for a nested one, ROLLBACK for the root.  The transactions
\* above it are closed.  The deletions still pending are reverted and the
\* instances that became persistent in the transaction are expunged; the
\* root's rollback expires the others.  An inactive transaction is closed
\* on the way: the session is usable again.
txn_rollback(g, h) ==
    IF g.txs[h].nested
    THEN [g EXCEPT !.txs = SubSeq(@, 1, h - 1), !.view = g.txs[h].snap,
                   !.marked = {}, !.loaded = @ \ NewIn(g, h),
                   !.expired = @ \ NewIn(g, h), !.deactive = FALSE]
    ELSE [g EXCEPT !.txs = <<>>, !.view = g.store, !.marked = {},
                   !.expired = Held(g) \ NewIn(g, 1), !.loaded = {},
                   !.deactive = FALSE]

\* Session.commit() that completes: flush and commit the outermost
\* transaction.
session_commit(g) ==
    LET f == session_flush(g)
    IN  [f EXCEPT !.txs = <<>>, !.store = f.view,
                  !.expired = f.expired \cup f.loaded, !.loaded = {}]

\* Session.rollback(): roll back the outermost transaction.
session_rollback(g) ==
    [g EXCEPT !.txs = <<>>, !.view = g.store, !.marked = {},
              !.expired = Held(g) \ NewIn(g, 1), !.loaded = {},
              !.deactive = FALSE]

\* The instances marked for deletion that a flush cannot delete: to write
\* the DELETE of an expired instance the flush loads its primary key, and
\* the row is gone.
Stale(g) == (g.marked \cap g.expired) \ g.view

\* What Session.flush() raises, "none" when it completes.  adding: a new
\* object waits for its INSERT.  A session with nothing to write returns at
\* once.  Otherwise the flush begins a subtransaction, which an inactive
\* transaction refuses; then the load of a stale instance fails.
FlushError(g, adding) ==
    IF g.marked = {} /\ ~adding THEN "none"
    ELSE IF g.deactive THEN PendingRollbackError
    ELSE IF Stale(g) # {} THEN ObjectDeletedError
    ELSE "none"

\* What the failed flush leaves: it rolled the innermost transaction back
\* (ROLLBACK TO SAVEPOINT, or ROLLBACK for the root) and restored the
\* session's snapshot as a rollback does, but the transaction stays the
\* session's current one, inactive.
FlushFailed(g) ==
    LET F(b) ==
            LET G(r) == [r EXCEPT !.txs = [b.txs EXCEPT ![Len(b.txs)].new = {}],
                                 !.deactive = TRUE]
            IN  G(txn_rollback(b, Len(b.txs)))
    IN  F(autobegin(g))

\* What is left after a call on the session raised exc.
AfterError(g, exc) ==
    IF exc = ObjectDeletedError THEN FlushFailed(g) ELSE g

\* What a statement of the session raises, "none" when it runs.  orm: an
\* ORM statement, before which the session flushes; a textual one runs
\* without.  The statement needs the connection of the current transaction,
\* which an inactive one refuses.
StatementError(g, orm) ==
    IF g.deactive THEN PendingRollbackError
    ELSE IF orm THEN FlushError(g, FALSE)
    ELSE "none"

\* Session.add(entity) of a new object + Session.flush(), when the flush
\* completes: INSERT inside the transaction; the flush writes the pending
\* deletions too.  An instance of the same key already in the identity map
\* is replaced.
session_add_flush(g, e) ==
    LET F(b) == Registered([b EXCEPT !.view = @ \cup {e}], e)
    IN  F(session_flush(autobegin(g)))

\* The instance of key e that the application passes is in the session
\* from now on: one that close() had detached is attached again.
Attached(g, e) ==
    IF e \in Held(g) THEN g
    ELSE [g EXCEPT !.expired = @ \cup {e}, !.detached = @ \ {e}]

\* Session.add(entity) of an instance that has its key: the instance is
\* attached (again), its pending deletion is withdrawn.
session_add(g, e) ==
    LET b == autobegin(g)
    IN  Attached([b EXCEPT !.marked = @ \ {e}], e)

\* Session.refresh(entity): the attributes are expired and loaded again
\* with a SELECT.  With no row for it the call raises InvalidRequestError
\* and the instance stays expired; so it does when the SELECT is refused.
session_refresh(g, e) ==
    IF StatementError(g, FALSE) # "none"
    THEN [g |-> [g EXCEPT !.loaded = @ \ {e}, !.expired = @ \cup {e}],
          exc |-> StatementError(g, FALSE)]
    ELSE IF e \in g.view
    THEN [g |-> [g EXCEPT !.loaded = @ \cup {e}, !.expired = @ \ {e}],
          exc |-> "none"]
    ELSE [g |-> [g EXCEPT !.loaded = @ \ {e}, !.expired = @ \cup {e}],
          exc |-> InvalidRequestError]

\* Session.merge(entity) + Session.flush().  merge flushes first.  An
\* instance that is in the identity map is merged onto itself: nothing is
\* written, not even when its row is gone.  Otherwise the row of that key
\* is loaded, or, when there is none, a new instance is added: INSERT.  A
\* session with nothing to flush and no statement to run does not begin.
\* The result is the session afterwards and what was raised.
session_merge_flush(g, e, kind) ==
    IF FlushError(g, FALSE) # "none"
    THEN [g |-> AfterError(g, FlushError(g, FALSE)),
          exc |-> FlushError(g, FALSE)]
    ELSE LET f == session_flush(g)
         IN  IF kind = "held" /\ e \in Held(f)
             THEN [g |-> f, exc |-> "none"]
             ELSE LET F(b) ==
                          IF StatementError(b, FALSE) # "none"
                          THEN [g |-> b, exc |-> StatementError(b, FALSE)]
                          ELSE IF e \in b.view
                          THEN [g |-> [b EXCEPT !.loaded = @ \cup {e},
                                                !.expired = @ \ {e}],
                                exc |-> "none"]
                          ELSE [g |-> Registered(
                                          [b EXCEPT !.view = @ \cup {e}], e),
                                exc |-> "none"]
                  IN  F(autobegin(IF kind = "held" THEN f
                                  ELSE Dropped(f, e)))

\* Session.delete(entity) of an instance that has its key: the session
\* begins, the instance is marked for deletion; the DELETE waits for the
\* next flush.  Marking it again changes nothing.  No statement runs.
session_delete(g, e) ==
    LET b == autobegin(g)
    IN  Attached([b EXCEPT !.marked = @ \cup {e}], e)

\* Session.execute(text(...)): runs inside the (autobegun) transaction; a
\* textual statement triggers no autoflush.
session_execute(g) == autobegin(g)

\* Session.execute(select(entity_class)) that completes: an ORM statement,
\* so the session flushes before it runs.
session_execute_select(g) == session_flush(autobegin(g))

\* ------------------------------------------------------ SQLAlchemyGateway
AutoCommitAlways(g) == session_commit(session(g))

\* _auto_commit(): commit only if not in a transaction.
_auto_commit(g) ==
    IF g.stack = <<>> /\ ~in_transaction(session(g))
    THEN session_commit(session(g))
    ELSE g

\* What a call that raised exc leaves: the gateway, and the exception in
\* place of a result.
Raised(g, exc) == [g |-> g, result |-> [kind |-> "raised", exc |-> exc]]

\* A variant of save that commits without adding the entity to the session.
SaveWithoutAdd(g, e, kind) ==
    [g |-> _auto_commit(session(g)), result |-> [kind |-> "entity", row |-> e]]

\* save(entity): add, flush, refresh, _auto_commit().  The result is the
\* gateway afterwards and what the call returned or raised.
save(g, e, kind) ==
    IF kind = "new"
    THEN LET F(b) ==
                 IF FlushError(b, TRUE) # "none"
                 THEN Raised(AfterError(b, FlushError(b, TRUE)),
                             FlushError(b, TRUE))
                 ELSE [g |-> _auto_commit(session_add_flush(b, e)),
                       result |-> [kind |-> "entity", row |-> e]]
         IN  F(autobegin(session(g)))
    ELSE LET F(b) ==
                 IF FlushError(b, FALSE) # "none"
                 THEN Raised(AfterError(b, FlushError(b, FALSE)),
                             FlushError(b, FALSE))
                 ELSE LET G(r) ==
                              IF r.exc # "none" THEN Raised(r.g, r.exc)
                              ELSE [g |-> _auto_commit(r.g),
                                    result |-> [kind |-> "entity",
                                                row |-> e]]
                      IN  G(session_refresh(session_flush(b), e))
         IN  F(session_add(session(g), e))

\* delete(entity): Session.delete refuses an object that has no key
\* ("Instance is not persisted") before it touches the session.
delete(g, e, kind) ==
    IF kind = "new"
    THEN Raised(session(g), InvalidRequestError)
    ELSE [g |-> _auto_commit(session_delete(session(g), e)),
          result |-> [kind |-> "None"]]

\* update(entity): merge, flush, _auto_commit(); the merged instance is
\* returned.
update(g, e, kind) ==
    LET F(r) == IF r.exc # "none" THEN Raised(r.g, r.exc)
                ELSE [g |-> _auto_commit(r.g),
                      result |-> [kind |-> "entity", row |-> e]]
    IN  F(session_merge_flush(session(g), e, kind))

\* find_all(entity_class): the SELECT, then an instance for every row; an
\* instance in the identity map is used again, an expired one is loaded.
find_all(g) ==
    LET F(s) ==
            IF StatementError(s, TRUE) # "none"
            THEN Raised(AfterError(s, StatementError(s, TRUE)),
                        StatementError(s, TRUE))
            ELSE LET G(x) ==
                         [g |-> [x EXCEPT !.loaded = @ \cup x.view,
                                          !.expired = @ \ x.view],
                          result |-> [kind |-> "list", items |-> x.view]]
                 IN  G(session_execute_select(s))
    IN  F(session(g))

\* Repository.count(): len(await self.find_all())
count(g) ==
    LET F(r) == IF r.result.kind = "raised" THEN r
                ELSE [g |-> r.g,
                      result |-> [kind |-> "scalar",
                                  value |-> Cardinality(r.result.items)]]
    IN  F(find_all(g))

\* Session.get(entity_class, id): the identity map is looked up first; an
\* instance found there with its attributes loaded is returned without a
\* statement, a flush or a begin.  hit: the application still holds the
\* instance it was given (the session itself holds the ones marked for
\* deletion).  An expired instance found there is loaded, and one whose
\* load raises ObjectDeletedError is removed; then, as for a key not in the
\* map, the session flushes and SELECTs by primary key inside the
\* (autobegun) transaction.  found: an instance was returned.
session_get(g, id, hit) ==
    IF id \in g.loaded /\ (hit \/ id \in g.marked)
    THEN [g |-> g, found |-> TRUE, exc |-> "none"]
    ELSE LET F(x) ==
                 IF x.deactive
                 THEN [g |-> x, found |-> FALSE,
                       exc |-> PendingRollbackError]
                 ELSE IF Stale(x) # {}
                 THEN IF id \in x.expired
                      THEN [g |-> Removed(FlushFailed(x), id),
                            found |-> FALSE, exc |-> PendingRollbackError]
                      ELSE [g |-> FlushFailed(x), found |-> FALSE,
                            exc |-> ObjectDeletedError]
                 ELSE LET G(y) ==
                              IF id \in y.view
                              THEN [g |-> [y EXCEPT !.loaded = @ \cup {id},
                                                    !.expired = @ \ {id}],
                                    found |-> TRUE, exc |-> "none"]
                              ELSE [g |-> Removed(y, id), found |-> FALSE,
                                    exc |-> "none"]
                      IN  G(session_execute_select(x))
         IN  F(IF hit THEN g ELSE Dropped(g, id))

\* find_by_id(entity_class, id): the gateway afterwards and the entity that
\* Session.get returned, or None
find_by_id(g, id, hit) ==
    LET F(x) == IF x.exc # "none" THEN Raised(x.g, x.exc)
                ELSE [g |-> x.g,
                      result |-> IF x.found
                                 THEN [kind |-> "entity", row |-> id]
                                 ELSE [kind |-> "None"]]
    IN  F(session_get(session(g), id, hit))

\* exists(entity_class, id): obj is not None
exists(g, id, hit) ==
    LET F(x) == IF x.exc # "none" THEN Raised(x.g, x.exc)
                ELSE [g |-> x.g,
                      result |-> [kind |-> "bool", value |-> x.found]]
    IN  F(session_get(session(g), id, hit))

\* Repository.delete_by_id(id): find_by_id(id), then delete(entity) and True
\* when an entity was found, False otherwise
delete_by_id(g, id, hit) ==
    LET F(r) == IF r.result.kind = "raised" THEN r
                ELSE IF r.result.kind = "entity"
                THEN [g |-> delete(r.g, id, "held").g,
                      result |-> [kind |-> "bool", value |-> TRUE]]
                ELSE [g |-> r.g,
                      result |-> [kind |-> "bool", value |-> FALSE]]
    IN  F(find_by_id(g, id, hit))

\* StarRepository.save_all(entities): save each entity in turn, return the
\* list of what save returned; a save that raises ends the loop.
RECURSIVE SaveAllFrom(_, _, _, _)
SaveAllFrom(g, entities, kinds, i) ==
    IF i > Len(entities)
    THEN [g |-> g, result |-> [kind |-> "list", rows |-> entities]]
    ELSE LET F(r) == IF r.result.kind = "raised" THEN r
                     ELSE SaveAllFrom(r.g, entities, kinds, i + 1)
         IN  F(save(g, entities[i], kinds[i]))
save_all(g, entities, kinds) == SaveAllFrom(g, entities, kinds, 1)

\* StarRepository.delete_all(entities): delete each entity in turn
RECURSIVE DeleteAllFrom(_, _, _, _)
DeleteAllFrom(g, entities, kinds, i) ==
    IF i > Len(entities)
    THEN [g |-> g, result |-> [kind |-> "None"]]
    ELSE LET F(r) == IF r.result.kind = "raised" THEN r
                     ELSE DeleteAllFrom(r.g, entities, kinds, i + 1)
         IN  F(delete(g, entities[i], kinds[i]))
delete_all(g, entities, kinds) == DeleteAllFrom(g, entities, kinds, 1)

\* StarRepository.delete_all_by_id(ids): delete_by_id for each id in turn;
\* deleted is the set of ids for which an entity was found.  A call that
\* raises ends the loop.
RECURSIVE DeleteAllByIdFrom(_, _, _, _, _)
DeleteAllByIdFrom(g, ids, hits, i, deleted) ==
    IF i > Len(ids)
    THEN [g |-> g, deleted |-> deleted, result |-> [kind |-> "None"]]
    ELSE LET F(r) ==
                 IF r.result.kind = "raised"
                 THEN [g |-> r.g, deleted |-> deleted, result |-> r.result]
                 ELSE DeleteAllByIdFrom(r.g, ids, hits, i + 1,
                          IF r.result.value THEN deleted \cup {ids[i]}
                          ELSE deleted)
         IN  F(delete_by_id(g, ids[i], hits[i]))
delete_all_by_id(g, ids, hits) == DeleteAllByIdFrom(g, ids, hits, 1, {})

\* execute_query(sql, params, entity_class, DELETE): a derived deleteBy...
\* statement that removes the rows matching e.
execute_query_delete(g, e) ==
    LET F(x) == IF StatementError(x, FALSE) # "none"
                THEN Raised(x, StatementError(x, FALSE))
                ELSE [g |-> _auto_commit([x EXCEPT !.view = @ \ {e}]),
                      result |-> [kind |-> "None"]]
    IN  F(session_execute(session(g)))

\* begin_transaction(); fail: the backend refuses to begin.  The result is
\* the gateway afterwards, whether the call raised, and what.  A session
\* in a transaction begins a nested one, which an inactive transaction
\* refuses and which flushes first.
begin_transaction(g, fail) ==
    LET s == session(g)
    IN  IF ~in_transaction(s)
        THEN IF fail
             THEN [g |-> s, raised |-> TRUE, exc |-> BackendError]
             ELSE LET b == session_begin(s)
                  IN  [g |-> [b EXCEPT !.stack = Append(@, Len(b.txs))],
                       raised |-> FALSE, exc |-> "none"]
        ELSE IF s.deactive
        THEN [g |-> s, raised |-> TRUE, exc |-> PendingRollbackError]
        ELSE IF FlushError(s, FALSE) # "none"
        THEN [g |-> AfterError(s, FlushError(s, FALSE)), raised |-> TRUE,
              exc |-> FlushError(s, FALSE)]
        ELSE IF fail
        THEN [g |-> s, raised |-> TRUE, exc |-> BackendError]
        ELSE LET b == session_begin_nested(s)
             IN  [g |-> [b EXCEPT !.stack = Append(@, Len(b.txs))],
                  raised |-> FALSE, exc |-> "none"]

\* What the commit of a transaction of session g raises before anything is
\* committed, "none" when it goes on: an inactive transaction refuses, and
\* the commit flushes first.
CommitError(g) ==
    IF g.deactive THEN PendingRollbackError ELSE FlushError(g, FALSE)

\* A variant of commit() that refuses to run on an empty stack.
CommitRefusesEmptyStack(g, fail) ==
    IF g.stack # <<>>
    THEN LET h == g.stack[Len(g.stack)]
             p == [g EXCEPT !.stack = SubSeq(@, 1, Len(@) - 1)]
         IN  IF CommitError(p) # "none"
             THEN [g |-> AfterError(p, CommitError(p)), raised |-> TRUE,
                   exc |-> CommitError(p)]
             ELSE IF fail
             THEN [g |-> txn_rollback(p, h), raised |-> TRUE,
                   exc |-> BackendError]
             ELSE [g |-> txn_commit(p, h), raised |-> FALSE,
                   exc |-> "none"]
    ELSE [g |-> g, raised |-> TRUE, exc |-> InvalidRequestError]

\* commit(); fail: the backend rejects the commit, which SQLAlchemy answers
\* by rolling the transaction back and raising.  The frame is popped before
\* the transaction is asked to commit.
commit(g, fail) ==
    IF g.stack # <<>>
    THEN LET h == g.stack[Len(g.stack)]
             p == [g EXCEPT !.stack = SubSeq(@, 1, Len(@) - 1)]
         IN  IF CommitError(p) # "none"
             THEN [g |-> AfterError(p, CommitError(p)), raised |-> TRUE,
                   exc |-> CommitError(p)]
             ELSE IF fail
             THEN [g |-> txn_rollback(p, h), raised |-> TRUE,
                   exc |-> BackendError]
             ELSE [g |-> txn_commit(p, h), raised |-> FALSE,
                   exc |-> "none"]
    ELSE LET s == session(g)
         IN  IF CommitError(s) # "none"
             THEN [g |-> AfterError(s, CommitError(s)), raised |-> TRUE,
                   exc |-> CommitError(s)]
             ELSE IF fail
             THEN [g |-> session_rollback(s), raised |-> TRUE,
                   exc |-> BackendError]
             ELSE [g |-> session_commit(s), raised |-> FALSE,
                   exc |-> "none"]

RollbackKeepsFrame(g) ==
    IF g.stack # <<>>
    THEN txn_rollback(g, g.stack[Len(g.stack)])
    ELSE session_rollback(session(g))

RollbackWholeSession(g) ==
    session_rollback(session([g EXCEPT !.stack = SubSeq(@, 1, Len(@) - 1)]))

\* rollback()
rollback(g) ==
    IF g.stack # <<>>
    THEN LET h == g.stack[Len(g.stack)]
             p == [g EXCEPT !.stack = SubSeq(@, 1, Len(@) - 1)]
         IN  txn_rollback(p, h)
    ELSE session_rollback(session(g))

\* ------------------------------------------------- Transactional boundary
\* except Exception: CancelledError derives from BaseException and is not
\* caught by the wrapper's handler.
IsException(e) == e # CancelledError

\* Lines "try: gateway.begin_transaction()" with the handler that runs when
\* begin_transaction() itself raises: rollback(), raise e.
TxBeginPath(g, fail) ==
    LET b == begin_transaction(g, fail)
    IN  IF b.raised
        THEN [g |-> rollback(b.g), exc |-> b.exc,
              calls |-> <<"begin_transaction", "rollback">>]
        ELSE [g |-> b.g, exc |-> "none", calls |-> <<"begin_transaction">>]

\* The unit of work returned: gateway.commit(), return result; when commit()
\* raises, the handler runs: rollback(), raise e.
TxReturnPath(g, fail) ==
    LET c == commit(g, fail)
    IN  IF c.raised
        THEN [g |-> rollback(c.g), exc |-> c.exc,
              calls |-> <<"commit", "rollback">>]
        ELSE [g |-> c.g, exc |-> "none", calls |-> <<"commit">>]

TxExceptPathCommits(g, e) ==
    IF IsException(e)
    THEN [g |-> commit(g, FALSE).g, exc |-> e, calls |-> <<"commit">>]
    ELSE [g |-> g, exc |-> e, calls |-> <<>>]

\* The unit of work raised e: "except Exception as e: gateway.rollback();
\* raise e".  A BaseException passes the handler by.
TxExceptPath(g, e) ==
    IF IsException(e)
    THEN [g |-> rollback(g), exc |-> e, calls |-> <<"rollback">>]
    ELSE [g |-> g, exc |-> e, calls |-> <<>>]

\* ------------------------------------------------------------ bookkeeping
NoLog == {}
NoLast == [outcome |-> "none", exc |-> "none", thrown |-> "none",
           calls |-> <<>>, start |-> 0, top |-> FALSE,
           log |-> NoLog, store0 |-> {}]
\* A repository on which nothing was accessed yet.
NoRepo ==
    [stub |-> [defined |-> "absent", file |-> TRUE, source |-> <<>>,
               returns |-> "unannotated", origin |-> "None"],
     accesses |-> 0, compiles |-> 0, gwops |-> 0,
     method |-> [status |-> "none"], call |-> [status |-> "none"]]
\* A gateway as SQLAlchemyGateway.__init__ leaves it.
NoGateway ==
    [open |-> FALSE, txs |-> <<>>, stack |-> <<>>, view |-> {}, store |-> {},
     marked |-> {}, loaded |-> {}, expired |-> {}, detached |-> {},
     deactive |-> FALSE]
\* The gateway objects that exist, each with a session factory of its own,
\* and the tasks that run units of work.
GatewayIds == {"g1", "g2"}
Tasks == {"t1", "t2"}
NoTask == "none"
NoUnit == [pc |-> "idle", gateway |-> "None", n |-> 0, swapped |-> FALSE]
NoUse == [task |-> NoTask, gateway |-> "None", boundary |-> "None",
          swapped |-> FALSE]
NoPop == [by |-> NoTask, owner |-> NoTask, gateway |-> "None"]
\* The process after StarSpringApplication._init_database: gateway g1 is
\* registered, no repository has looked its gateway up yet.
\*   registry: orm_gateway._orm_gateway
\*   cached  : the repository's _gateway_instance
\*   started : how many units of work were started, the n-th being unit n
\*   owners  : for each gateway, the task that pushed each frame of its stack
\*   served  : for each gateway, the units of work its session has served
\*   units   : for each task, its Transactional boundary in progress: the
\*             local variable gateway, the number of the unit, and whether
\*             set_orm_gateway was called since the boundary began
\*   popped  : the latest commit() or rollback() of a boundary
\*   used    : the latest repository operation of a unit of work
NoEnv ==
    [registry |-> "g1", cached |-> "None", started |-> 0,
     gws |-> [i \in GatewayIds |-> NoGateway],
     owners |-> [i \in GatewayIds |-> <<>>],
     served |-> [i \in GatewayIds |-> {}],
     units |-> [t \in Tasks |-> NoUnit],
     popped |-> NoPop, used |-> NoUse]
\* The elements of a sequence
Range(s) == {s[i] : i \in 1..Len(s)}
\* No call that returned.
NoRet == [kind |-> "none"]
NoCnt == [begin |-> 0, refused |-> 0, commit |-> 0, rollback |-> 0,
          onEmpty |-> FALSE, ops |-> 0]

\* The scenario "begin, write A, begin, write B, rollback, commit" on a new
\* gateway; scn counts the calls made so far while they are exactly the
\* scenario's, and is OffScript from the first call that departs from it.
Scenario == <<[op |-> "begin", arg |-> "-"], [op |-> "save", arg |-> "A"],
              [op |-> "begin", arg |-> "-"], [op |-> "save", arg |-> "B"],
              [op |-> "rollback", arg |-> "-"], [op |-> "commit", arg |-> "-"]>>
OffScript == 0 - 1
\* The scenario "begin, begin, write B, commit, rollback" on a new gateway.
\* Both scenarios start with begin; from its second call on, this one is
\* counted from Len(Scenario) upwards.
NestedCommitScenario ==
    <<[op |-> "begin", arg |-> "-"], [op |-> "begin", arg |-> "-"],
      [op |-> "save", arg |-> "B"], [op |-> "commit", arg |-> "-"],
      [op |-> "rollback", arg |-> "-"]>>
\* scn when the first k calls were those of NestedCommitScenario
InNestedCommit(k) == Len(Scenario) + k
Follows(o, a) ==
    IF scn # OffScript /\ scn < Len(Scenario)
       /\ Scenario[scn + 1] = [op |-> o, arg |-> a]
    THEN scn + 1
    ELSE IF scn = Len(<<NestedCommitScenario[1]>>)
            /\ NestedCommitScenario[scn + 1] = [op |-> o, arg |-> a]
    THEN InNestedCommit(scn + 1)
    ELSE IF scn > Len(Scenario)
            /\ scn < InNestedCommit(Len(NestedCommitScenario))
            /\ NestedCommitScenario[scn - Len(Scenario) + 1] = [op |-> o, arg |-> a]
    THEN scn + 1
    ELSE OffScript

Top == ctl[Len(ctl)]
\* The code that runs now is outside every boundary, or is a unit of work
\* that has no failure to deal with.
Running == IF ctl = <<>> THEN TRUE ELSE Top.pending = "none"
\* The call stack with item i noted as put ("put") or removed ("del") by the
\* unit that runs now, if any: log is the set of items the unit has put.
Logged(i, w) ==
    IF ctl = <<>> THEN ctl
    ELSE [ctl EXCEPT ![Len(ctl)].log =
              IF w = "put" THEN @ \cup {i} ELSE @ \ {i}]
\* The same for a set s of items.
LoggedAll(s, w) ==
    IF ctl = <<>> THEN ctl
    ELSE [ctl EXCEPT ![Len(ctl)].log =
              IF w = "put" THEN @ \cup s ELSE @ \ s]
\* The call stack after its top boundary ended: with exc = "none" its writes
\* become writes of the enclosing unit, otherwise the enclosing unit has the
\* failure exc to deal with.
Ended(exc) ==
    LET rest == SubSeq(ctl, 1, Len(ctl) - 1)
    IN  IF rest = <<>> THEN rest
        ELSE IF exc = "none"
        THEN [rest EXCEPT ![Len(rest)].log = Top.log]
        ELSE [rest EXCEPT ![Len(rest)].pending = exc]

Init ==
    /\ gw = [open |-> FALSE, txs |-> <<>>, stack |-> <<>>,
             view |-> {}, store |-> {}, marked |-> {}, loaded |-> {},
             expired |-> {}, detached |-> {}, deactive |-> FALSE]
    /\ ctl = <<>>
    /\ last = NoLast
    /\ op = "init"
    /\ cnt = NoCnt
    /\ scn = 0
    /\ name = <<>>
    /\ parsed = [status |-> "none"]
    /\ gen = [status |-> "none"]
    /\ rq = NoRepo
    /\ env = NoEnv
    /\ ret = NoRet

\* ---------------------------------------------------- repository actions
\* The call stack after a repository call of the unit that runs now raised
\* exc: the unit has the failure to deal with.
Failing(exc) ==
    IF ctl = <<>> THEN ctl ELSE [ctl EXCEPT ![Len(ctl)].pending = exc]

\* The call stack after a repository call that returned result, noting item
\* i as w, or that raised.
After(result, i, w) ==
    IF result.kind = "raised" THEN Failing(result.exc) ELSE Logged(i, w)

\* The call stack after a repository call that writes nothing returned
\* result, or raised.
AfterRead(result) ==
    IF result.kind = "raised" THEN Failing(result.exc) ELSE ctl

\* The call stack after a batch call noted the items s as w and then raised
\* exc.
FailingAll(s, w, exc) ==
    [k \in 1..Len(ctl) |->
        IF k < Len(ctl) THEN ctl[k]
        ELSE [ctl[k] EXCEPT !.log = IF w = "put" THEN @ \cup s ELSE @ \ s,
                            !.pending = exc]]

\* One more repository call was made.
Counted == [cnt EXCEPT !.ops = @ + 1]

\* Repository.save(entity) -> gateway.save(entity).  A new entity gets a key
\* that no row has and no pending deletion holds.
RepoSave(e, kind) ==
    /\ Running
    /\ cnt.ops < MaxOps
    /\ kind = "held" => e \in Held(gw)
    /\ kind = "new" => e \notin gw.view \cup gw.marked
    /\ \E r \in {save(gw, e, kind)} :
           /\ gw' = r.g
           /\ ret' = r.result
           /\ ctl' = After(r.result, e, "put")
    /\ last' = NoLast
    /\ op' = "save"
    /\ scn' = Follows("save", e)
    /\ cnt' = Counted
    /\ UNCHANGED <<name, parsed, gen, rq, env>>

\* Repository.update(entity) -> gateway.update(entity)
RepoUpdate(e, kind) ==
    /\ Running
    /\ cnt.ops < MaxOps
    /\ kind = "held" => e \in Held(gw)
    /\ \E r \in {update(gw, e, kind)} :
           /\ gw' = r.g
           /\ ret' = r.result
           /\ ctl' = IF r.result.kind = "raised"
                     THEN Failing(r.result.exc)
                     ELSE IF e \in r.g.view THEN Logged(e, "put") ELSE ctl
    /\ last' = NoLast
    /\ op' = "update"
    /\ scn' = Follows("update", e)
    /\ cnt' = Counted
    /\ UNCHANGED <<name, parsed, gen, rq, env>>

\* Repository.delete(entity) -> gateway.delete(entity)
RepoDelete(e, kind) ==
    /\ Running
    /\ cnt.ops < MaxOps
    /\ kind = "held" => e \in Held(gw)
    /\ \E r \in {delete(gw, e, kind)} :
           /\ gw' = r.g
           /\ ret' = r.result
           /\ ctl' = After(r.result, e, "del")
    /\ last' = NoLast
    /\ op' = "delete"
    /\ scn' = Follows("delete", e)
    /\ cnt' = Counted
    /\ UNCHANGED <<name, parsed, gen, rq, env>>

\* A derived deleteBy... method -> gateway.execute_query(..., DELETE)
RepoDeleteBy(e) ==
    /\ Running
    /\ cnt.ops < MaxOps
    /\ \E r \in {execute_query_delete(gw, e)} :
           /\ gw' = r.g
           /\ ret' = r.result
           /\ ctl' = After(r.result, e, "del")
    /\ last' = NoLast
    /\ op' = "deleteBy"
    /\ scn' = Follows("deleteBy", e)
    /\ cnt' = Counted
    /\ UNCHANGED <<name, parsed, gen, rq, env>>

\* Repository.find_all() -> gateway.find_all(entity_class)
RepoFindAll ==
    /\ Running
    /\ cnt.ops < MaxOps
    /\ \E r \in {find_all(gw)} :
           /\ gw' = r.g
           /\ ret' = r.result
           /\ ctl' = AfterRead(r.result)
    /\ last' = NoLast
    /\ op' = "find_all"
    /\ scn' = Follows("find_all", "-")
    /\ cnt' = Counted
    /\ UNCHANGED <<name, parsed, gen, rq, env>>

\* Repository.find_by_id(id) -> gateway.find_by_id(entity_class, id)
RepoFindById(id, hit) ==
    /\ Running
    /\ cnt.ops < MaxOps
    /\ \E r \in {find_by_id(gw, id, hit)} :
           /\ gw' = r.g
           /\ ret' = r.result
           /\ ctl' = AfterRead(r.result)
    /\ last' = NoLast
    /\ op' = "find_by_id"
    /\ scn' = Follows("find_by_id", id)
    /\ cnt' = Counted
    /\ UNCHANGED <<name, parsed, gen, rq, env>>

\* Repository.exists(id) -> gateway.exists(entity_class, id)
RepoExists(id, hit) ==
    /\ Running
    /\ cnt.ops < MaxOps
    /\ \E r \in {exists(gw, id, hit)} :
           /\ gw' = r.g
           /\ ret' = r.result
           /\ ctl' = AfterRead(r.result)
    /\ last' = NoLast
    /\ op' = "exists"
    /\ scn' = Follows("exists", id)
    /\ cnt' = Counted
    /\ UNCHANGED <<name, parsed, gen, rq, env>>

\* Repository.count(): find_all(), then the length of the list
RepoCount ==
    /\ Running
    /\ cnt.ops < MaxOps
    /\ \E r \in {count(gw)} :
           /\ gw' = r.g
           /\ ret' = r.result
           /\ ctl' = AfterRead(r.result)
    /\ last' = NoLast
    /\ op' = "count"
    /\ scn' = Follows("count", "-")
    /\ cnt' = Counted
    /\ UNCHANGED <<name, parsed, gen, rq, env>>

\* Repository.delete_by_id(id)
RepoDeleteById(id, hit) ==
    /\ Running
    /\ cnt.ops < MaxOps
    /\ \E r \in {delete_by_id(gw, id, hit)} :
           /\ gw' = r.g
           /\ ret' = r.result
           /\ ctl' = IF r.result.kind = "raised"
                     THEN Failing(r.result.exc)
                     ELSE IF r.result.value THEN Logged(id, "del") ELSE ctl
    /\ last' = NoLast
    /\ op' = "delete_by_id"
    /\ scn' = Follows("delete_by_id", id)
    /\ cnt' = Counted
    /\ UNCHANGED <<name, parsed, gen, rq, env>>

\* The entities of a batch that were saved before the call ended: all of
\* them, or the ones before the first whose save raised.
RECURSIVE Saved(_, _, _, _)
Saved(g, entities, kinds, i) ==
    IF i > Len(entities) THEN {}
    ELSE LET F(r) == IF r.result.kind = "raised" THEN {}
                     ELSE {entities[i]}
                          \cup Saved(r.g, entities, kinds, i + 1)
         IN  F(save(g, entities[i], kinds[i]))

\* The entities of a batch that were deleted before the call ended.
RECURSIVE Deleted(_, _, _, _)
Deleted(g, entities, kinds, i) ==
    IF i > Len(entities) THEN {}
    ELSE LET F(r) == IF r.result.kind = "raised" THEN {}
                     ELSE {entities[i]}
                          \cup Deleted(r.g, entities, kinds, i + 1)
         IN  F(delete(g, entities[i], kinds[i]))

\* Every entity of a batch to save is one that RepoSave accepts when its
\* turn comes.
RECURSIVE Savable(_, _, _, _)
Savable(g, entities, kinds, i) ==
    IF i > Len(entities) THEN TRUE
    ELSE /\ kinds[i] = "held" => entities[i] \in Held(g)
         /\ kinds[i] = "new" => entities[i] \notin g.view \cup g.marked
         /\ LET F(r) == r.result.kind = "raised"
                        \/ Savable(r.g, entities, kinds, i + 1)
            IN  F(save(g, entities[i], kinds[i]))

\* StarRepository.save_all(entities)
RepoSaveAll(entities, kinds) ==
    /\ Running
    /\ cnt.ops < MaxOps
    /\ Savable(gw, entities, kinds, 1)
    /\ \E r \in {save_all(gw, entities, kinds)} :
           /\ gw' = r.g
           /\ ret' = r.result
           /\ ctl' = IF r.result.kind = "raised"
                     THEN FailingAll(Saved(gw, entities, kinds, 1), "put",
                                     r.result.exc)
                     ELSE LoggedAll(Range(entities), "put")
    /\ last' = NoLast
    /\ op' = "save_all"
    /\ scn' = OffScript
    /\ cnt' = Counted
    /\ UNCHANGED <<name, parsed, gen, rq, env>>

\* StarRepository.delete_all(entities)
RepoDeleteAll(entities, kinds) ==
    /\ Running
    /\ cnt.ops < MaxOps
    /\ \A i \in 1..Len(entities) :
           kinds[i] = "held" => entities[i] \in Held(gw)
    /\ \E r \in {delete_all(gw, entities, kinds)} :
           /\ gw' = r.g
           /\ ret' = r.result
           /\ ctl' = IF r.result.kind = "raised"
                     THEN FailingAll(Deleted(gw, entities, kinds, 1), "del",
                                     r.result.exc)
                     ELSE LoggedAll(Range(entities), "del")
    /\ last' = NoLast
    /\ op' = "delete_all"
    /\ scn' = OffScript
    /\ cnt' = Counted
    /\ UNCHANGED <<name, parsed, gen, rq, env>>

\* StarRepository.delete_all_by_id(ids)
RepoDeleteAllById(ids, hits) ==
    /\ Running
    /\ cnt.ops < MaxOps
    /\ \E r \in {delete_all_by_id(gw, ids, hits)} :
           /\ gw' = r.g
           /\ ret' = r.result
           /\ ctl' = IF r.result.kind = "raised"
                     THEN FailingAll(r.deleted, "del", r.result.exc)
                     ELSE LoggedAll(r.deleted, "del")
    /\ last' = NoLast
    /\ op' = "delete_all_by_id"
    /\ scn' = OffScript
    /\ cnt' = Counted
    /\ UNCHANGED <<name, parsed, gen, rq, env>>

\* ------------------------------------------------------ boundary actions
\* A Transactional function is called, from outside or from a unit of work.
TxEnter(fail) ==
    /\ Running
    /\ Len(ctl) < MaxDepth
    /\ Len(gw.stack) < MaxFrames
    /\ LET r == TxBeginPath(gw, fail)
       IN  /\ gw' = r.g
           /\ IF r.exc = "none"
              THEN /\ ctl' = Append(ctl,
                          [start |-> Len(gw.stack),
                           log |-> IF ctl = <<>> THEN NoLog ELSE Top.log,
                           store0 |-> IF ctl = <<>> THEN gw.store
                                      ELSE Top.store0,
                           pending |-> "none"])
                   /\ last' = NoLast
              ELSE /\ ctl' = IF ctl = <<>> THEN ctl
                             ELSE [ctl EXCEPT ![Len(ctl)].pending = r.exc]
                   /\ last' = [outcome |-> "raised", exc |-> r.exc,
                               thrown |-> "none", calls |-> r.calls,
                               start |-> Len(gw.stack), top |-> ctl = <<>>,
                               log |-> NoLog, store0 |-> gw.store]
    /\ op' = "enter"
    /\ scn' = OffScript
    /\ UNCHANGED <<cnt, name, parsed, gen, rq, env>>
    /\ ret' = [kind |-> "None"]

\* The unit of work of the innermost boundary returns.
UnitReturns(fail) ==
    /\ ctl # <<>>
    /\ Top.pending = "none"
    /\ LET r == TxReturnPath(gw, fail)
       IN  /\ gw' = r.g
           /\ ctl' = Ended(r.exc)
           /\ last' = [outcome |-> IF r.exc = "none" THEN "returned"
                                   ELSE "raised",
                       exc |-> r.exc, thrown |-> "none", calls |-> r.calls,
                       start |-> Top.start, top |-> Len(ctl) = 1,
                       log |-> Top.log, store0 |-> Top.store0]
    /\ op' = "return"
    /\ scn' = OffScript
    /\ UNCHANGED <<cnt, name, parsed, gen, rq, env>>
    /\ ret' = [kind |-> "None"]

\* The unit of work of the innermost boundary raises an Exception: one of
\* its own, or the one an inner boundary propagated to it.
UnitRaises(e) ==
    /\ ctl # <<>>
    /\ IsException(e)
    /\ Top.pending \in {"none", e}
    /\ Top.pending = "none" => e \in UnitErrors
    /\ LET r == TxExceptPath(gw, e)
       IN  /\ gw' = r.g
           /\ ctl' = Ended(r.exc)
           /\ last' = [outcome |-> "raised", exc |-> r.exc, thrown |-> e,
                       calls |-> r.calls, start |-> Top.start,
                       top |-> Len(ctl) = 1, log |-> Top.log,
                       store0 |-> Top.store0]
    /\ op' = "raise"
    /\ scn' = OffScript
    /\ UNCHANGED <<cnt, name, parsed, gen, rq, env>>
    /\ ret' = [kind |-> "None"]

\* The task is cancelled while the unit of work of the innermost boundary is
\* suspended: CancelledError is thrown into it and leaves through the
\* wrapper (and through every enclosing wrapper in turn).
UnitCancelled ==
    /\ ctl # <<>>
    /\ Top.pending \in {"none", CancelledError}
    /\ LET r == TxExceptPath(gw, CancelledError)
       IN  /\ gw' = r.g
           /\ ctl' = Ended(r.exc)
           /\ last' = [outcome |-> "cancelled", exc |-> r.exc,
                       thrown |-> CancelledError, calls |-> r.calls,
                       start |-> Top.start, top |-> Len(ctl) = 1,
                       log |-> Top.log, store0 |-> Top.store0]
    /\ op' = "cancel"
    /\ scn' = OffScript
    /\ UNCHANGED <<cnt, name, parsed, gen, rq, env>>
    /\ ret' = NoRet

\* The unit of work handles the Exception an inner boundary propagated to
\* it (try / except around the call) and carries on.
UnitCatches ==
    /\ ctl # <<>>
    /\ Top.pending # "none"
    /\ IsException(Top.pending)
    /\ ctl' = [ctl EXCEPT ![Len(ctl)].pending = "none"]
    /\ last' = NoLast
    /\ op' = "catch"
    /\ scn' = OffScript
    /\ UNCHANGED <<gw, cnt, name, parsed, gen, rq, env>>
    /\ ret' = NoRet

RepoStep ==
    \/ \E e \in Items, kind \in Kinds : RepoSave(e, kind)
    \/ \E e \in Items, kind \in Kinds : RepoUpdate(e, kind)
    \/ \E e \in Items, kind \in Kinds : RepoDelete(e, kind)
    \/ \E e \in Items : RepoDeleteBy(e)
    \/ RepoFindAll
    \/ \E id \in Items, hit \in BOOLEAN : RepoFindById(id, hit)
    \/ \E id \in Items, hit \in BOOLEAN : RepoExists(id, hit)
    \/ RepoCount
    \/ \E id \in Items, hit \in BOOLEAN : RepoDeleteById(id, hit)
    \/ \E entities \in Batches :
       \E kinds \in [1..Len(entities) -> Kinds] :
           RepoSaveAll(entities, kinds)
    \/ \E entities \in Batches :
       \E kinds \in [1..Len(entities) -> Kinds] :
           RepoDeleteAll(entities, kinds)
    \/ \E ids \in Batches :
       \E hits \in [1..Len(ids) -> BOOLEAN] :
           RepoDeleteAllById(ids, hits)

Next ==
    \/ RepoStep
    \/ \E fail \in BOOLEAN : TxEnter(fail)
    \/ \E fail \in BOOLEAN : UnitReturns(fail)
    \/ \E e \in UnitErrors \cup {BackendError} \cup SessionErrors :
           UnitRaises(e)
    \/ UnitCancelled
    \/ UnitCatches

Spec == Init /\ [][Next]_vars

\* ------------------------------------------------ direct gateway actions
\* What a call of begin_transaction() or commit() with result r gave back.
Outcome(r) ==
    IF r.raised THEN [kind |-> "raised", exc |-> r.exc]
    ELSE [kind |-> "None"]

\* Client code calls gateway.begin_transaction() itself.  cnt.refused counts
\* the calls that raised.
GwBegin ==
    /\ ctl = <<>>
    /\ cnt.begin < MaxCalls
    /\ \E r \in {begin_transaction(gw, FALSE)} :
           /\ gw' = r.g
           /\ ret' = Outcome(r)
           /\ cnt' = [cnt EXCEPT !.begin = @ + 1,
                                 !.refused = IF r.raised THEN @ + 1 ELSE @]
    /\ op' = "begin"
    /\ scn' = Follows("begin", "-")
    /\ UNCHANGED <<ctl, last, name, parsed, gen, rq, env>>

\* Client code calls gateway.commit() itself.
GwCommit ==
    /\ ctl = <<>>
    /\ cnt.commit + cnt.rollback < MaxCalls
    /\ \E r \in {commit(gw, FALSE)} :
           /\ gw' = r.g
           /\ ret' = Outcome(r)
    /\ cnt' = [cnt EXCEPT !.commit = @ + 1,
                          !.onEmpty = @ \/ gw.stack = <<>>]
    /\ op' = "commit"
    /\ scn' = Follows("commit", "-")
    /\ UNCHANGED <<ctl, last, name, parsed, gen, rq, env>>

\* Client code calls gateway.rollback() itself.
GwRollback ==
    /\ ctl = <<>>
    /\ cnt.commit + cnt.rollback < MaxCalls
    /\ gw' = rollback(gw)
    /\ cnt' = [cnt EXCEPT !.rollback = @ + 1,
                          !.onEmpty = @ \/ gw.stack = <<>>]
    /\ op' = "rollback"
    /\ scn' = Follows("rollback", "-")
    /\ UNCHANGED <<ctl, last, name, parsed, gen, rq, env>>
    /\ ret' = [kind |-> "None"]

NextGw ==
    \/ RepoStep
    \/ GwBegin
    \/ GwCommit
    \/ GwRollback

\* The gateway driven by its own primitives and the repository operations.
SpecGw == Init /\ [][NextGw]_vars

\* ------------------------------------------- units of work on the registry
\* get_orm_gateway(): the registered gateway
get_orm_gateway(e) == e.registry

\* set_orm_gateway(gateway)
set_orm_gateway(e, i) == [e EXCEPT !.registry = i]

\* Repository._gateway: the gateway looked up at the first use, kept in
\* _gateway_instance from then on
_gateway(e) == IF e.cached = "None" THEN get_orm_gateway(e) ELSE e.cached

\* SQLAlchemyGateway.close(): close the session, forget it and the stack.
\* Session.close() rolls back and detaches every instance.
close(g) ==
    IF g.open
    THEN [g EXCEPT !.open = FALSE, !.txs = <<>>, !.stack = <<>>,
                   !.view = g.store, !.marked = {}, !.loaded = {},
                   !.expired = {}, !.detached = @ \cup Held(g),
                   !.deactive = FALSE]
    ELSE g

\* The sequence without its last element
Front(q) == SubSeq(q, 1, Len(q) - 1)
\* Who pushed the top frame of gateway i
TopOwner(e, i) ==
    IF e.owners[i] = <<>> THEN NoTask ELSE e.owners[i][Len(e.owners[i])]

\* Client code registers gateway i.
SetOrmGateway(i) ==
    /\ i # env.registry
    /\ env' = [set_orm_gateway(env, i) EXCEPT
                  !.units = [t \in Tasks |->
                                IF env.units[t].pc = "unit"
                                THEN [env.units[t] EXCEPT !.swapped = TRUE]
                                ELSE env.units[t]]]
    /\ op' = "set_orm_gateway"
    /\ UNCHANGED <<gw, ctl, last, cnt, scn, name, parsed, gen, rq, ret>>

\* Client code closes gateway i: close() checks nothing and takes no lock,
\* so a unit of work may be suspended on the gateway; its boundary goes on
\* with the gateway as close() left it.  On a gateway without a session
\* close() does nothing.
GatewayClose(i) ==
    /\ env' = [env EXCEPT !.gws[i] = close(env.gws[i]),
                          !.owners[i] = IF env.gws[i].open THEN <<>> ELSE @,
                          !.served[i] = IF env.gws[i].open THEN {} ELSE @]
    /\ op' = "close"
    /\ UNCHANGED <<gw, ctl, last, cnt, scn, name, parsed, gen, rq, ret>>

\* A repository operation by code that is in no unit of work: find_all().
\* Nothing in Repository looks at the units in progress, so the call may
\* come while a unit is suspended.
OutsideFindAll ==
    /\ \E i \in {_gateway(env)} :
           env' = [env EXCEPT !.cached = i,
                              !.gws[i] = find_all(env.gws[i]).g]
    /\ op' = "outside_find_all"
    /\ UNCHANGED <<gw, ctl, last, cnt, scn, name, parsed, gen, rq, ret>>

\* Task t calls a Transactional function: gateway = get_orm_gateway(),
\* gateway.begin_transaction(), then the unit of work starts and suspends.
UnitEnter(t) ==
    /\ env.units[t].pc = "idle"
    /\ env.started < MaxUnits
    /\ \E i \in {get_orm_gateway(env)} :
       \E r \in {TxBeginPath(env.gws[i], FALSE)} :
           env' = [env EXCEPT
                      !.gws[i] = r.g,
                      !.owners[i] = Append(@, t),
                      !.started = @ + 1,
                      !.served[i] = @ \cup {env.started + 1},
                      !.units[t] = [pc |-> "unit", gateway |-> i,
                                    n |-> env.started + 1,
                                    swapped |-> FALSE]]
    /\ op' = "unit_enter"
    /\ UNCHANGED <<gw, ctl, last, cnt, scn, name, parsed, gen, rq, ret>>

\* The entity of key e that a unit of work saves on gateway g: the instance
\* that the session holds or that close() detached, else a new object.
UnitEntity(g, e) ==
    IF e \in Held(g) \cup g.detached THEN "held" ELSE "new"

\* The unit of work of task t saves an entity through the repository.
UnitSave(t, e) ==
    /\ env.units[t].pc = "unit"
    /\ \E i \in {_gateway(env)} :
           env' = [env EXCEPT
                      !.cached = i,
                      !.gws[i] = save(env.gws[i], e,
                                      UnitEntity(env.gws[i], e)).g,
                      !.served[i] = @ \cup {env.units[t].n},
                      !.used = [task |-> t, gateway |-> i,
                                boundary |-> env.units[t].gateway,
                                swapped |-> env.units[t].swapped]]
    /\ op' = "unit_save"
    /\ UNCHANGED <<gw, ctl, last, cnt, scn, name, parsed, gen, rq, ret>>

\* The unit of work of task t returns: gateway.commit() on the gateway the
\* boundary looked up when it began.
UnitCommits(t) ==
    /\ env.units[t].pc = "unit"
    /\ \E i \in {env.units[t].gateway} :
       \E r \in {TxReturnPath(env.gws[i], FALSE)} :
           env' = [env EXCEPT
                      !.gws[i] = r.g,
                      !.owners[i] = Front(@),
                      !.served[i] = @ \cup {env.units[t].n},
                      !.popped = [by |-> t, owner |-> TopOwner(env, i),
                                  gateway |-> i],
                      !.units[t] = [@ EXCEPT !.pc = "idle"]]
    /\ op' = "unit_commit"
    /\ UNCHANGED <<gw, ctl, last, cnt, scn, name, parsed, gen, rq, ret>>

\* The unit of work of task t raises: gateway.rollback(), raise e.
UnitRollsBack(t) ==
    /\ env.units[t].pc = "unit"
    /\ \E i \in {env.units[t].gateway} :
       \E r \in {TxExceptPath(env.gws[i], "ValueError")} :
           env' = [env EXCEPT
                      !.gws[i] = r.g,
                      !.owners[i] = Front(@),
                      !.served[i] = @ \cup {env.units[t].n},
                      !.popped = [by |-> t, owner |-> TopOwner(env, i),
                                  gateway |-> i],
                      !.units[t] = [@ EXCEPT !.pc = "idle"]]
    /\ op' = "unit_rollback"
    /\ UNCHANGED <<gw, ctl, last, cnt, scn, name, parsed, gen, rq, ret>>

NextUnits ==
    \/ \E i \in GatewayIds : SetOrmGateway(i)
    \/ \E i \in GatewayIds : GatewayClose(i)
    \/ OutsideFindAll
    \/ \E t \in Tasks : UnitEnter(t)
    \/ \E t \in Tasks, e \in UnitItems : UnitSave(t, e)
    \/ \E t \in Tasks : UnitCommits(t)
    \/ \E t \in Tasks : UnitRollsBack(t)

\* Tasks that run Transactional units of work, interleaved at the points
\* where a unit suspends, on the gateways that client code registers.
SpecUnits == Init /\ [][NextUnits]_vars

\* ------------------------------------------------------- character strings
\* A method name is a sequence of one-character strings.
UpperChars == <<"A", "B", "C", "D", "E", "F", "G", "H", "I", "J", "K", "L", "M", "N", "O", "P", "Q", "R", "S", "T", "U", "V", "W", "X", "Y", "Z">>
LowerChars == <<"a", "b", "c", "d", "e", "f", "g", "h", "i", "j", "k", "l", "m", "n", "o", "p", "q", "r", "s", "t", "u", "v", "w", "x", "y", "z">>
DigitChars == <<"0", "1", "2", "3", "4", "5", "6", "7", "8", "9">>

IsUpper(c) == c \in Range(UpperChars)
IsLower(c) == c \in Range(LowerChars)
IsDigit(c) == c \in Range(DigitChars)
IndexIn(c, s) == CHOOSE i \in 1..Len(s) : s[i] = c

\* str.lower() and str.upper()
lower(s) ==
    [i \in 1..Len(s) |->
        IF IsUpper(s[i]) THEN LowerChars[IndexIn(s[i], UpperChars)] ELSE s[i]]
upper(s) ==
    [i \in 1..Len(s) |->
        IF IsLower(s[i]) THEN UpperChars[IndexIn(s[i], LowerChars)] ELSE s[i]]

\* str.capitalize(): first character upper, the rest lower
capitalize(s) ==
    IF s = <<>> THEN s
    ELSE upper(<<s[1]>>) \o lower(SubSeq(s, 2, Len(s)))

\* s[i:] starts with p
MatchAt(s, i, p) ==
    /\ i + Len(p) - 1 <= Len(s)
    /\ SubSeq(s, i, i + Len(p) - 1) = p
startswith(s, p) == MatchAt(s, 1, p)
endswith(s, p) == Len(p) <= Len(s) /\ MatchAt(s, Len(s) - Len(p) + 1, p)
\* p in s
contains(s, p) == \E i \in 1..(Len(s) + 1) : MatchAt(s, i, p)

\* str.split(sep): the pieces between the occurrences of sep, left to right
RECURSIVE SplitFrom(_, _, _, _)
SplitFrom(s, sep, i, cur) ==
    IF i > Len(s) THEN <<cur>>
    ELSE IF MatchAt(s, i, sep)
    THEN <<cur>> \o SplitFrom(s, sep, i + Len(sep), <<>>)
    ELSE SplitFrom(s, sep, i + 1, Append(cur, s[i]))
split(s, sep) == SplitFrom(s, sep, 1, <<>>)

\* str.replace(old, new)
RECURSIVE ReplaceFrom(_, _, _, _)
ReplaceFrom(s, old, new, i) ==
    IF i > Len(s) THEN <<>>
    ELSE IF MatchAt(s, i, old)
    THEN new \o ReplaceFrom(s, old, new, i + Len(old))
    ELSE <<s[i]>> \o ReplaceFrom(s, old, new, i + 1)
replace(s, old, new) == ReplaceFrom(s, old, new, 1)

\* re.split(r'(a|b|...)', s) for literal alternatives seps, tried in order:
\* the pieces and, between them, the separators that were matched
RECURSIVE ReSplitFrom(_, _, _, _)
ReSplitFrom(s, seps, i, cur) ==
    IF i > Len(s) THEN <<cur>>
    ELSE LET hits == {k \in 1..Len(seps) : MatchAt(s, i, seps[k])}
         IN  IF hits = {}
             THEN ReSplitFrom(s, seps, i + 1, Append(cur, s[i]))
             ELSE LET k == CHOOSE x \in hits : \A y \in hits : x <= y
                  IN  <<cur, seps[k]>>
                      \o ReSplitFrom(s, seps, i + Len(seps[k]), <<>>)
re_split(s, seps) == ReSplitFrom(s, seps, 1, <<>>)

\* ------------------------------------------------------ QueryMethodParser
\* QueryOperation: the values of the enumeration
QueryOperation == <<<<"f", "i", "n", "d">>, <<"c", "o", "u", "n", "t">>, <<"d", "e", "l", "e", "t", "e">>, <<"e", "x", "i", "s", "t", "s">>>>

\* QueryCondition: member names with their values
QueryCondition == <<
    [member |-> <<"E", "Q", "U", "A", "L", "S">>, value |-> <<>>],
    [member |-> <<"A", "N", "D">>, value |-> <<"A", "n", "d">>],
    [member |-> <<"O", "R">>, value |-> <<"O", "r">>],
    [member |-> <<"G", "R", "E", "A", "T", "E", "R", "_", "T", "H", "A", "N">>, value |-> <<"G", "r", "e", "a", "t", "e", "r", "T", "h", "a", "n">>],
    [member |-> <<"L", "E", "S", "S", "_", "T", "H", "A", "N">>, value |-> <<"L", "e", "s", "s", "T", "h", "a", "n">>],
    [member |-> <<"G", "R", "E", "A", "T", "E", "R", "_", "T", "H", "A", "N", "_", "E", "Q", "U", "A", "L">>, value |-> <<"G", "r", "e", "a", "t", "e", "r", "T", "h", "a", "n", "E", "q", "u", "a", "l">>],
    [member |-> <<"L", "E", "S", "S", "_", "T", "H", "A", "N", "_", "E", "Q", "U", "A", "L">>, value |-> <<"L", "e", "s", "s", "T", "h", "a", "n", "E", "q", "u", "a", "l">>],
    [member |-> <<"L", "I", "K", "E">>, value |-> <<"L", "i", "k", "e">>],
    [member |-> <<"C", "O", "N", "T", "A", "I", "N", "I", "N", "G">>, value |-> <<"C", "o", "n", "t", "a", "i", "n", "i", "n", "g">>],
    [member |-> <<"S", "T", "A", "R", "T", "I", "N", "G", "_", "W", "I", "T", "H">>, value |-> <<"S", "t", "a", "r", "t", "i", "n", "g", "W", "i", "t", "h">>],
    [member |-> <<"E", "N", "D", "I", "N", "G", "_", "W", "I", "T", "H">>, value |-> <<"E", "n", "d", "i", "n", "g", "W", "i", "t", "h">>],
    [member |-> <<"B", "E", "T", "W", "E", "E", "N">>, value |-> <<"B", "e", "t", "w", "e", "e", "n">>],
    [member |-> <<"I", "N">>, value |-> <<"I", "n">>],
    [member |-> <<"N", "O", "T">>, value |-> <<"N", "o", "t">>],
    [member |-> <<"I", "S", "_", "N", "U", "L", "L">>, value |-> <<"I", "s", "N", "u", "l", "l">>],
    [member |-> <<"I", "S", "_", "N", "O", "T", "_", "N", "U", "L", "L">>, value |-> <<"I", "s", "N", "o", "t", "N", "u", "l", "l">>],
    [member |-> <<"T", "R", "U", "E">>, value |-> <<"T", "r", "u", "e">>],
    [member |-> <<"F", "A", "L", "S", "E">>, value |-> <<"F", "a", "l", "s", "e">>]>>

\* QueryCondition[key]: the member named key; a KeyError when there is none
IsMember(key) == \E k \in 1..Len(QueryCondition) : QueryCondition[k].member = key

\* OPERATION_PATTERN = r'^(find|count|delete|exists)By'
OPERATION_PATTERN == [alternatives |-> QueryOperation, then |-> <<"B", "y">>]

\* CONDITION_PATTERNS, in the order of the dictionary
CONDITION_PATTERNS == <<
    <<"G", "r", "e", "a", "t", "e", "r", "T", "h", "a", "n", "E", "q", "u", "a", "l">>, <<"L", "e", "s", "s", "T", "h", "a", "n", "E", "q", "u", "a", "l">>, <<"G", "r", "e", "a", "t", "e", "r", "T", "h", "a", "n">>, <<"L", "e", "s", "s", "T", "h", "a", "n">>,
    <<"C", "o", "n", "t", "a", "i", "n", "i", "n", "g">>, <<"S", "t", "a", "r", "t", "i", "n", "g", "W", "i", "t", "h">>, <<"E", "n", "d", "i", "n", "g", "W", "i", "t", "h">>, <<"B", "e", "t", "w", "e", "e", "n">>, <<"L", "i", "k", "e">>,
    <<"I", "n">>, <<"I", "s", "N", "u", "l", "l">>, <<"I", "s", "N", "o", "t", "N", "u", "l", "l">>, <<"T", "r", "u", "e">>, <<"F", "a", "l", "s", "e">>, <<"N", "o", "t">>>>

\* re.sub('(.)([A-Z][a-z]+)', r'\1_\2', s)
RECURSIVE LowerRunEnd(_, _)
LowerRunEnd(s, j) ==
    IF j + 1 <= Len(s) /\ IsLower(s[j + 1]) THEN LowerRunEnd(s, j + 1) ELSE j
RECURSIVE SubWordFrom(_, _)
SubWordFrom(s, i) ==
    IF i > Len(s) THEN <<>>
    ELSE IF i + 2 <= Len(s) /\ IsUpper(s[i + 1]) /\ IsLower(s[i + 2])
    THEN LET j == LowerRunEnd(s, i + 2)
         IN  <<s[i], "_">> \o SubSeq(s, i + 1, j) \o SubWordFrom(s, j + 1)
    ELSE <<s[i]>> \o SubWordFrom(s, i + 1)

\* re.sub('([a-z0-9])([A-Z])', r'\1_\2', s)
RECURSIVE SubBoundaryFrom(_, _)
SubBoundaryFrom(s, i) ==
    IF i > Len(s) THEN <<>>
    ELSE IF i + 1 <= Len(s) /\ (IsLower(s[i]) \/ IsDigit(s[i]))
            /\ IsUpper(s[i + 1])
    THEN <<s[i], "_", s[i + 1]>> \o SubBoundaryFrom(s, i + 2)
    ELSE <<s[i]>> \o SubBoundaryFrom(s, i + 1)

\* _camel_to_snake(name)
_camel_to_snake(s) == lower(SubBoundaryFrom(SubWordFrom(s, 1), 1))

\* _parse_single_condition(condition): the first pattern the atom ends
\* with decides; its member is looked up under the name
\* op_name.upper().replace('THAN', '_THAN').
_parse_single_condition(condition) ==
    LET hits == {k \in 1..Len(CONDITION_PATTERNS) :
                    endswith(condition, CONDITION_PATTERNS[k])}
    IN  IF hits = {}
        THEN [raised |-> "none", field |-> _camel_to_snake(condition),
              operator |-> <<"E", "Q", "U", "A", "L", "S">>]
        ELSE LET k == CHOOSE x \in hits : \A y \in hits : x <= y
                 op_name == CONDITION_PATTERNS[k]
                 fld == SubSeq(condition, 1, Len(condition) - Len(op_name))
                 key == replace(upper(op_name), <<"T", "H", "A", "N">>, <<"_", "T", "H", "A", "N">>)
             IN  IF IsMember(key)
                 THEN [raised |-> "none", field |-> _camel_to_snake(fld),
                       operator |-> key]
                 ELSE [raised |-> "KeyError", field |-> <<>>,
                       operator |-> key]

\* _parse_conditions(condition_str): the loop over the tokens, from token i
\* on, with the connector seen last
RECURSIVE ConditionsFrom(_, _, _)
ConditionsFrom(tokens, i, current_connector) ==
    IF i > Len(tokens) THEN [raised |-> "none", parts |-> <<>>]
    ELSE IF tokens[i] \in {<<"A", "n", "d">>, <<"O", "r">>}
    THEN ConditionsFrom(tokens, i + 1, upper(tokens[i]))
    ELSE IF tokens[i] = <<>>
    THEN ConditionsFrom(tokens, i + 1, current_connector)
    ELSE LET c == _parse_single_condition(tokens[i])
         IN  IF c.raised # "none"
             THEN [raised |-> c.raised, parts |-> <<>>]
             ELSE LET rest == ConditionsFrom(tokens, i + 1, current_connector)
                  IN  [raised |-> rest.raised,
                       parts |-> <<[field |-> c.field,
                                    operator |-> c.operator,
                                    connector |-> current_connector]>>
                                 \o rest.parts]
_parse_conditions(condition_str) ==
    ConditionsFrom(re_split(condition_str, <<<<"A", "n", "d">>, <<"O", "r">>>>), 1, <<>>)

\* _parse_order_by(order_str)
RECURSIVE OrdersFrom(_, _)
OrdersFrom(parts, i) ==
    IF i > Len(parts) THEN <<>>
    ELSE IF parts[i] = <<"A", "n", "d">> \/ parts[i] = <<>>
    THEN OrdersFrom(parts, i + 1)
    ELSE LET part == parts[i]
             o == IF endswith(part, <<"D", "e", "s", "c">>)
                  THEN [field |-> SubSeq(part, 1, Len(part) - 4),
                        direction |-> <<"D", "E", "S", "C">>]
                  ELSE IF endswith(part, <<"A", "s", "c">>)
                  THEN [field |-> SubSeq(part, 1, Len(part) - 3),
                        direction |-> <<"A", "S", "C">>]
                  ELSE [field |-> part, direction |-> <<"A", "S", "C">>]
         IN  <<[field |-> _camel_to_snake(o.field),
                direction |-> o.direction]>> \o OrdersFrom(parts, i + 1)
_parse_order_by(order_str) == OrdersFrom(re_split(order_str, <<<<"A", "n", "d">>>>), 1)

\* parse(method_name)
parse(method_name) ==
    LET ops == {k \in 1..Len(OPERATION_PATTERN.alternatives) :
                   startswith(method_name,
                       OPERATION_PATTERN.alternatives[k]
                           \o OPERATION_PATTERN.then)}
    IN  IF ops = {}
        THEN [status |-> "error", raised |-> "ValueError"]
        ELSE LET k == CHOOSE x \in ops : \A y \in ops : x <= y
                 operation == OPERATION_PATTERN.alternatives[k]
                 after == SubSeq(method_name,
                              Len(operation) + Len(OPERATION_PATTERN.then) + 1,
                              Len(method_name))
                 pieces == split(after, <<"O", "r", "d", "e", "r", "B", "y">>)
                 has_order == contains(after, <<"O", "r", "d", "e", "r", "B", "y">>)
                 remainder == IF has_order THEN pieces[1] ELSE after
                 order_by == IF has_order THEN _parse_order_by(pieces[2])
                             ELSE <<>>
                 conds == _parse_conditions(remainder)
             IN  IF conds.raised # "none"
                 THEN [status |-> "error", raised |-> conds.raised]
                 ELSE [status |-> "ok", operation |-> operation,
                       parts |-> conds.parts, order_by |-> order_by]

\* ------------------------------------------------------ SQLQueryGenerator
\* _build_condition(part): the text that follows the field and the number
\* of parameters, for each operator of the if-chain, in its order
ConditionSql == <<
    [operator |-> <<"E", "Q", "U", "A", "L", "S">>, text |-> <<" ", "=", " ", "?">>, arity |-> 1],
    [operator |-> <<"G", "R", "E", "A", "T", "E", "R", "_", "T", "H", "A", "N">>, text |-> <<" ", ">", " ", "?">>, arity |-> 1],
    [operator |-> <<"L", "E", "S", "S", "_", "T", "H", "A", "N">>, text |-> <<" ", "<", " ", "?">>, arity |-> 1],
    [operator |-> <<"G", "R", "E", "A", "T", "E", "R", "_", "T", "H", "A", "N", "_", "E", "Q", "U", "A", "L">>, text |-> <<" ", ">", "=", " ", "?">>, arity |-> 1],
    [operator |-> <<"L", "E", "S", "S", "_", "T", "H", "A", "N", "_", "E", "Q", "U", "A", "L">>, text |-> <<" ", "<", "=", " ", "?">>, arity |-> 1],
    [operator |-> <<"L", "I", "K", "E">>, text |-> <<" ", "L", "I", "K", "E", " ", "?">>, arity |-> 1],
    [operator |-> <<"C", "O", "N", "T", "A", "I", "N", "I", "N", "G">>, text |-> <<" ", "L", "I", "K", "E", " ", "?">>, arity |-> 1],
    [operator |-> <<"S", "T", "A", "R", "T", "I", "N", "G", "_", "W", "I", "T", "H">>, text |-> <<" ", "L", "I", "K", "E", " ", "?">>, arity |-> 1],
    [operator |-> <<"E", "N", "D", "I", "N", "G", "_", "W", "I", "T", "H">>, text |-> <<" ", "L", "I", "K", "E", " ", "?">>, arity |-> 1],
    [operator |-> <<"B", "E", "T", "W", "E", "E", "N">>, text |-> <<" ", "B", "E", "T", "W", "E", "E", "N", " ", "?", " ", "A", "N", "D", " ", "?">>, arity |-> 2],
    [operator |-> <<"I", "N">>, text |-> <<" ", "I", "N", " ", "(", "?", ")">>, arity |-> 1],
    [operator |-> <<"I", "S", "_", "N", "U", "L", "L">>, text |-> <<" ", "I", "S", " ", "N", "U", "L", "L">>, arity |-> 0],
    [operator |-> <<"I", "S", "_", "N", "O", "T", "_", "N", "U", "L", "L">>, text |-> <<" ", "I", "S", " ", "N", "O", "T", " ", "N", "U", "L", "L">>, arity |-> 0],
    [operator |-> <<"T", "R", "U", "E">>, text |-> <<" ", "=", " ", "T", "R", "U", "E">>, arity |-> 0],
    [operator |-> <<"F", "A", "L", "S", "E">>, text |-> <<" ", "=", " ", "F", "A", "L", "S", "E">>, arity |-> 0],
    [operator |-> <<"N", "O", "T">>, text |-> <<" ", "!", "=", " ", "?">>, arity |-> 1]>>

\* [field] * n
Repeat(x, n) == [i \in 1..n |-> x]

\* A variant of _build_condition that lists the field of a BETWEEN once.
BuildConditionBetweenOnce(part) ==
    LET Branch(c) ==
            [raised |-> "none", sql |-> part.field \o c.text,
             params |-> Repeat(part.field, IF c.arity = 2 THEN 1 ELSE c.arity)]
        Chain(hits) ==
            IF hits = {}
            THEN [raised |-> "ValueError", sql |-> <<>>, params |-> <<>>]
            ELSE Branch(ConditionSql[CHOOSE k \in hits : TRUE])
    IN  Chain({k \in 1..Len(ConditionSql) :
                  ConditionSql[k].operator = part.operator})

\* _build_condition(part)
_build_condition(part) ==
    LET Branch(c) ==
            [raised |-> "none", sql |-> part.field \o c.text,
             params |-> Repeat(part.field, c.arity)]
        Chain(hits) ==
            IF hits = {}
            THEN [raised |-> "ValueError", sql |-> <<>>, params |-> <<>>]
            ELSE Branch(ConditionSql[CHOOSE k \in hits : TRUE])
    IN  Chain({k \in 1..Len(ConditionSql) :
                  ConditionSql[k].operator = part.operator})

\* _build_where_clause(parts): the loop from part i on, conditions and
\* params being what the earlier parts gave
RECURSIVE WhereFrom(_, _, _, _)
WhereFrom(parts, i, conditions, params) ==
    IF i > Len(parts)
    THEN [raised |-> "none", sql |-> conditions.text, params |-> params]
    ELSE LET Body(part, c) ==
                 IF c.raised # "none"
                 THEN [raised |-> c.raised, sql |-> <<>>, params |-> <<>>]
                 ELSE WhereFrom(parts, i + 1,
                          IF part.connector # <<>> /\ conditions.n > 0
                          THEN [n |-> conditions.n + 1,
                                text |-> conditions.text \o <<" ">>
                                           \o part.connector \o <<" ">> \o c.sql]
                          ELSE [n |-> conditions.n + 1,
                                text |-> conditions.text \o c.sql],
                          params \o c.params)
         IN  Body(parts[i], _build_condition(parts[i]))
_build_where_clause(parts) == WhereFrom(parts, 1, [n |-> 0, text |-> <<>>], <<>>)

\* ', '.join(f"{field} {direction}" for field, direction in order_by)
RECURSIVE OrderPartsFrom(_, _)
OrderPartsFrom(order_by, i) ==
    IF i > Len(order_by) THEN <<>>
    ELSE (IF i > 1 THEN <<",", " ">> ELSE <<>>)
            \o order_by[i].field \o <<" ">> \o order_by[i].direction
            \o OrderPartsFrom(order_by, i + 1)

\* sql += f" WHERE {where_clause}" when parsed_query.parts is not empty
WithWhere(sql, parts) ==
    IF parts = <<>>
    THEN [raised |-> "none", sql |-> sql, params |-> <<>>]
    ELSE LET Where(w) ==
                 IF w.raised # "none" THEN w
                 ELSE [raised |-> "none", sql |-> sql \o <<" ", "W", "H", "E", "R", "E", " ">> \o w.sql,
                       params |-> w.params]
         IN  Where(_build_where_clause(parts))

\* _generate_select(parsed_query)
_generate_select(table_name, parsed_query) ==
    LET OrderBy(w) ==
            IF w.raised # "none" \/ parsed_query.order_by = <<>> THEN w
            ELSE [w EXCEPT !.sql = w.sql \o <<" ", "O", "R", "D", "E", "R", " ", "B", "Y", " ">>
                                     \o OrderPartsFrom(parsed_query.order_by, 1)]
    IN  OrderBy(WithWhere(<<"S", "E", "L", "E", "C", "T", " ", "*", " ", "F", "R", "O", "M", " ">> \o table_name, parsed_query.parts))

\* _generate_count(parsed_query)
_generate_count(table_name, parsed_query) ==
    WithWhere(<<"S", "E", "L", "E", "C", "T", " ", "C", "O", "U", "N", "T", "(", "*", ")", " ", "F", "R", "O", "M", " ">> \o table_name, parsed_query.parts)

\* A variant of _generate_delete that builds the statement of a Find.
GenerateDeleteAsSelect(table_name, parsed_query) ==
    _generate_select(table_name, parsed_query)

\* _generate_delete(parsed_query)
_generate_delete(table_name, parsed_query) ==
    WithWhere(<<"D", "E", "L", "E", "T", "E", " ", "F", "R", "O", "M", " ">> \o table_name, parsed_query.parts)

\* _generate_exists(parsed_query)
_generate_exists(table_name, parsed_query) ==
    LET Close(w) ==
            IF w.raised # "none" THEN w
            ELSE [w EXCEPT !.sql = w.sql \o <<")">>]
    IN  Close(WithWhere(<<"S", "E", "L", "E", "C", "T", " ", "E", "X", "I", "S", "T", "S", "(", "S", "E", "L", "E", "C", "T", " ", "1", " ", "F", "R", "O", "M", " ">> \o table_name,
                        parsed_query.parts))

\* SQLQueryGenerator(table_name).generate(parsed_query)
generate(table_name, parsed_query) ==
    LET Returned(r) ==
            IF r.raised # "none"
            THEN [status |-> "error", raised |-> r.raised]
            ELSE [status |-> "ok", sql |-> r.sql, params |-> r.params]
    IN  Returned(IF parsed_query.operation = <<"f", "i", "n", "d">>
                 THEN _generate_select(table_name, parsed_query)
                 ELSE IF parsed_query.operation = <<"c", "o", "u", "n", "t">>
                 THEN _generate_count(table_name, parsed_query)
                 ELSE IF parsed_query.operation = <<"d", "e", "l", "e", "t", "e">>
                 THEN _generate_delete(table_name, parsed_query)
                 ELSE IF parsed_query.operation = <<"e", "x", "i", "s", "t", "s">>
                 THEN _generate_exists(table_name, parsed_query)
                 ELSE [raised |-> "ValueError", sql |-> <<>>, params |-> <<>>])

\* The table of the repository's entity class
TableName == <<"u", "s", "e", "r", "s">>

\* --------------------------------------------------------- StarRepository
\* What the repository class defines under the accessed name:
\*   defined : "absent" for nothing, "value" for an attribute that is no
\*             method, "method" for a function of the class
\*   file    : inspect.getsource finds the text of the class
\*   source  : what inspect.getsource(attr.__func__) returns for the method
\*   returns : the declared return annotation, origin its __origin__
ReturnHints == <<
    [returns |-> "unannotated", origin |-> "None", text |-> <<>>],
    [returns |-> "List[T]", origin |-> "list", text |-> <<" ", "-", ">", " ", "L", "i", "s", "t", "[", "U", "s", "e", "r", "s", "]">>],
    [returns |-> "list[T]", origin |-> "list", text |-> <<" ", "-", ">", " ", "l", "i", "s", "t", "[", "U", "s", "e", "r", "s", "]">>],
    [returns |-> "list", origin |-> "None", text |-> <<" ", "-", ">", " ", "l", "i", "s", "t">>],
    [returns |-> "T", origin |-> "None", text |-> <<" ", "-", ">", " ", "U", "s", "e", "r", "s">>],
    [returns |-> "Optional[T]", origin |-> "Union", text |-> <<" ", "-", ">", " ", "O", "p", "t", "i", "o", "n", "a", "l", "[", "U", "s", "e", "r", "s", "]">>]>>

\* The newline character
NL == "\n"
\* The line 'async def <name>(self, *args)<hint>:' of a method of the class
DefLine(n, hint) == <<" ", " ", " ", " ", "a", "s", "y", "n", "c", " ", "d", "e", "f", " ">> \o n \o <<"(", "s", "e", "l", "f", ",", " ", "*", "a", "r", "g", "s", ")">> \o hint \o <<":">>
\* A line of the method's body
BodyLine(text) == <<NL>> \o <<" ", " ", " ", " ", " ", " ", " ", " ">> \o text
\* The bodies of the methods that the classes define
Bodies == <<
    [lines |-> <<<<"p", "a", "s", "s">>>>, hint |-> 1],
    [lines |-> <<<<"'", "'", "'", "F", "i", "n", "d", " ", "t", "h", "e", " ", "r", "o", "w", "s", ".", "'", "'", "'">>, <<"p", "a", "s", "s">>>>, hint |-> 6],
    [lines |-> <<<<"'", "'", "'", "F", "i", "n", "d", " ", "t", "h", "e", " ", "r", "o", "w", "s", ".">>, <<"'", "'", "'">>, <<"p", "a", "s", "s">>>>, hint |-> 6],
    [lines |-> <<<<"'", "'", "'">>, <<"F", "i", "n", "d", " ", "t", "h", "e", " ", "r", "o", "w", "s", ".">>, <<"'", "'", "'">>, <<"p", "a", "s", "s">>>>, hint |-> 6],
    [lines |-> <<<<"r", "e", "t", "u", "r", "n", " ", "a", "w", "a", "i", "t", " ", "s", "e", "l", "f", ".", "l", "o", "a", "d", "(", "p", "a", "s", "s", "w", "o", "r", "d", "=", "a", "r", "g", "s", ")">>>>, hint |-> 1],
    [lines |-> <<<<"r", "e", "t", "u", "r", "n", " ", "[", "]">>>>, hint |-> 1],
    [lines |-> <<<<"x", " ", "=", " ", "1">>, <<"y", " ", "=", " ", "2">>, <<"z", " ", "=", " ", "3">>, <<"r", "e", "t", "u", "r", "n", " ", "[", "]">>>>, hint |-> 1]>>
RECURSIVE BodyFrom(_, _)
BodyFrom(lines, i) ==
    IF i > Len(lines) THEN <<NL>>
    ELSE BodyLine(lines[i]) \o BodyFrom(lines, i + 1)
\* A method of the class written over several lines
Method(n, b) ==
    [defined |-> "method", file |-> TRUE,
     source |-> DefLine(n, ReturnHints[b.hint].text) \o BodyFrom(b.lines, 1),
     returns |-> ReturnHints[b.hint].returns,
     origin |-> ReturnHints[b.hint].origin]
\* A stub on one line: 'async def <name>(self, *args)<hint>: ...'
Ellipsis(n, h) ==
    [defined |-> "method", file |-> TRUE,
     source |-> DefLine(n, h.text) \o <<" ", ".", ".", ".">> \o <<NL>>,
     returns |-> h.returns, origin |-> h.origin]
Stubs(n) ==
    {[defined |-> "absent", file |-> TRUE, source |-> <<>>,
      returns |-> "unannotated", origin |-> "None"],
     [defined |-> "value", file |-> TRUE, source |-> <<>>,
      returns |-> "unannotated", origin |-> "None"],
     [defined |-> "method", file |-> FALSE, source |-> <<>>,
      returns |-> "unannotated", origin |-> "None"]}
    \cup {Ellipsis(n, ReturnHints[k]) : k \in 1..Len(ReturnHints)}
    \cup {Method(n, Bodies[k]) : k \in 1..Len(Bodies)}

\* str.strip(): the text without the whitespace at its ends
IsSpace(c) == c \in {" ", NL}
strip(s) ==
    LET keep == {i \in 1..Len(s) : ~IsSpace(s[i])}
    IN  IF keep = {} THEN <<>>
        ELSE SubSeq(s, CHOOSE i \in keep : \A k \in keep : i <= k,
                       CHOOSE i \in keep : \A k \in keep : k <= i)

\* len(text.split('\n')): one more than the newlines that the text holds
LineCount(text) == Cardinality({i \in 1..Len(text) : text[i] = NL}) + 1

\* is_stub: the text holds 'pass' or '...' and has at most 3 lines
is_stub(source) ==
    /\ contains(source, <<"p", "a", "s", "s">>) \/ contains(source, <<".", ".", ".">>)
    /\ LineCount(strip(source)) <= 3

\* The first block of __getattribute__: the attribute is returned as it is
\* ("attribute"), inspect.getsource raises ("OSError"), or the access goes
\* on to the derived names ("derive")
FirstLook(stub) ==
    IF stub.defined = "method"
    THEN IF ~stub.file THEN "OSError"
         ELSE IF ~is_stub(stub.source) THEN "attribute"
         ELSE "derive"
    ELSE "derive"

\* ''.join(word.capitalize() for word in parts[i:])
RECURSIVE CapitalizeFrom(_, _)
CapitalizeFrom(parts, i) ==
    IF i > Len(parts) THEN <<>>
    ELSE capitalize(parts[i]) \o CapitalizeFrom(parts, i + 1)

\* _snake_to_camel_method(snake_name)
_snake_to_camel_method(snake_name) ==
    LET parts == split(snake_name, <<"_">>)
    IN  parts[1] \o CapitalizeFrom(parts, 2)

\* is_list_return: list unless the method of the class declares a return
\* annotation whose origin is not list (no hints are read from an attribute
\* that is no function)
is_list_return(stub) ==
    IF stub.defined # "method" \/ stub.returns = "unannotated" THEN TRUE
    ELSE stub.origin = "list"

\* __getattribute__: the name that the access hands to _create_query_method,
\* or no name when the access is not one of a derived method
CamelPrefixes == {<<"f", "i", "n", "d", "B", "y">>, <<"c", "o", "u", "n", "t", "B", "y">>, <<"d", "e", "l", "e", "t", "e", "B", "y">>, <<"e", "x", "i", "s", "t", "s", "B", "y">>}
SnakePrefixes == {<<"f", "i", "n", "d", "_", "b", "y", "_">>, <<"c", "o", "u", "n", "t", "_", "b", "y", "_">>, <<"d", "e", "l", "e", "t", "e", "_", "b", "y", "_">>, <<"e", "x", "i", "s", "t", "s", "_", "b", "y", "_">>}
StartsWithAny(s, prefixes) == \E p \in prefixes : startswith(s, p)
NoName == <<>>
DerivedName(n, stub) ==
    IF FirstLook(stub) # "derive" THEN NoName
    ELSE IF StartsWithAny(n, CamelPrefixes) THEN n
    ELSE IF StartsWithAny(n, SnakePrefixes) THEN _snake_to_camel_method(n)
    ELSE NoName

\* A variant of _create_query_method that answers a name that does not
\* parse with an executor selecting every row.
CreateQueryMethodLenient(parsed_query, g, stub) ==
    IF parsed_query.status # "ok"
    THEN [status |-> "executor", sql |-> <<"S", "E", "L", "E", "C", "T", " ", "*", " ", "F", "R", "O", "M", " ">> \o TableName,
          param_names |-> <<>>, operation |-> <<"f", "i", "n", "d">>,
          is_list_return |-> is_list_return(stub)]
    ELSE IF g.status # "ok"
    THEN [status |-> "raised", raised |-> g.raised]
    ELSE [status |-> "executor", sql |-> g.sql, param_names |-> g.params,
          operation |-> parsed_query.operation,
          is_list_return |-> is_list_return(stub)]

\* _create_query_method(method_name, original_name) on a class whose
\* attribute original_name is stub, parsed_query being what parse did with
\* method_name and g what generate did with parsed_query: the executor, or
\* the ValueError raised for a name that does not parse
_create_query_method(parsed_query, g, stub) ==
    IF parsed_query.status # "ok"
    THEN [status |-> "raised", raised |-> "ValueError"]
    ELSE IF g.status # "ok"
    THEN [status |-> "raised", raised |-> g.raised]
    ELSE [status |-> "executor", sql |-> g.sql, param_names |-> g.params,
          operation |-> parsed_query.operation,
          is_list_return |-> is_list_return(stub)]

\* StarRepository.__getattribute__(name) on a class whose attribute name is
\* stub, created being what _create_query_method returned or raised
__getattribute__(method_name, stub, created) ==
    IF FirstLook(stub) = "OSError"
    THEN [status |-> "raised", raised |-> "OSError"]
    ELSE IF FirstLook(stub) = "attribute" THEN [status |-> "attribute"]
    ELSE IF method_name # NoName THEN created
    ELSE IF stub.defined = "absent"
    THEN [status |-> "raised", raised |-> "AttributeError"]
    ELSE [status |-> "attribute"]

\* A dict in insertion order: d[key] = value
DictSet(d, key, value) ==
    IF \E i \in 1..Len(d) : d[i].key = key
    THEN [i \in 1..Len(d) |->
             IF d[i].key = key THEN [key |-> key, value |-> value] ELSE d[i]]
    ELSE Append(d, [key |-> key, value |-> value])
HasKey(d, key) == \E i \in 1..Len(d) : d[i].key = key
DictGet(d, key) == d[CHOOSE i \in 1..Len(d) : d[i].key = key].value

\* query_executor(*args, **kwargs): the loop that builds params
RECURSIVE ParamsFrom(_, _, _, _, _)
ParamsFrom(param_names, args, kwargs, i, params) ==
    IF i > Len(param_names) THEN params
    ELSE ParamsFrom(param_names, args, kwargs, i + 1,
             IF i <= Len(args)
             THEN DictSet(params, param_names[i], args[i])
             ELSE IF HasKey(kwargs, param_names[i])
             THEN DictSet(params, param_names[i],
                          DictGet(kwargs, param_names[i]))
             ELSE params)

\* str.replace(old, new, 1)
RECURSIVE ReplaceFirstFrom(_, _, _, _)
ReplaceFirstFrom(s, old, new, i) ==
    IF i > Len(s) THEN <<>>
    ELSE IF MatchAt(s, i, old)
    THEN new \o SubSeq(s, i + Len(old), Len(s))
    ELSE <<s[i]>> \o ReplaceFirstFrom(s, old, new, i + 1)

\* execute_query: sql_alchemy after the loop over params.items()
RECURSIVE BindFrom(_, _, _)
BindFrom(sql, params, i) ==
    IF i > Len(params) THEN sql
    ELSE BindFrom(ReplaceFirstFrom(sql, <<"?">>, <<":">> \o params[i].key, 1),
                  params, i + 1)

\* The rows of a result, in the order the backend returned them
ResultRows(data) ==
    ({<<>>} \cup {<<a>> : a \in data}
           \cup {<<a, b>> : a, b \in data}) \ {<<a, a>> : a \in data}

\* SQLAlchemyGateway.execute_query(sql, params, entity_class, operation)
\* after the loop that made sql_alchemy of sql, rows being what the
\* statement matches.  A statement that still holds a '?' has a marker
\* without a value and the backend rejects it; a session whose transaction
\* is inactive refuses the statement before that.
execute_query(g, sql_alchemy, params, operation, rows) ==
    LET x == session_execute(session(g))
    IN  IF StatementError(x, FALSE) # "none"
        THEN [g |-> x, statement |-> sql_alchemy, param_values |-> params,
              raised |-> StatementError(x, FALSE),
              result |-> [kind |-> "none"]]
        ELSE IF contains(sql_alchemy, <<"?">>)
        THEN [g |-> x, statement |-> sql_alchemy, param_values |-> params,
              raised |-> BackendError, result |-> [kind |-> "none"]]
        ELSE IF operation = <<"f", "i", "n", "d">>
        THEN [g |-> x, statement |-> sql_alchemy, param_values |-> params,
              raised |-> "none", result |-> [kind |-> "list", rows |-> rows]]
        ELSE IF operation = <<"c", "o", "u", "n", "t">>
        THEN [g |-> x, statement |-> sql_alchemy, param_values |-> params,
              raised |-> "none",
              result |-> [kind |-> "scalar", value |-> Len(rows)]]
        ELSE IF operation = <<"e", "x", "i", "s", "t", "s">>
        THEN [g |-> x, statement |-> sql_alchemy, param_values |-> params,
              raised |-> "none",
              result |-> [kind |-> "bool", value |-> Len(rows) > 0]]
        ELSE [g |-> _auto_commit([x EXCEPT !.view = @ \ Range(rows)]),
              statement |-> sql_alchemy, param_values |-> params,
              raised |-> "none", result |-> [kind |-> "None"]]

\* query_executor(*args, **kwargs) of the executor m after the call of
\* execute_query, which gave r: a Find whose stub declares no list unwraps
\* the result
query_executor(m, r, rows) ==
    IF r.raised = "none" /\ m.operation = <<"f", "i", "n", "d">>
        /\ ~m.is_list_return
    THEN [r EXCEPT !.result =
             IF Len(rows) > 0 THEN [kind |-> "entity", row |-> rows[1]]
             ELSE [kind |-> "None"]]
    ELSE r

\* ----------------------------------------------------------- parser runs
Prefixes == QueryOperation
\* Field names as in the parser's documented examples (findByEmailAndActive,
\* findByAgeGreaterThan, ...) and a two-word one
FieldNames == <<<<"A", "g", "e">>, <<"E", "m", "a", "i", "l">>, <<"U", "s", "e", "r", "N", "a", "m", "e">>, <<"A", "c", "t", "i", "v", "e">>>>
\* The operator tokens of the grammar: the values of QueryCondition that are
\* not connectors (the empty token is the bare equals)
OperatorTokens ==
    {QueryCondition[k].value : k \in 1..Len(QueryCondition)}
        \ {<<"A", "n", "d">>, <<"O", "r">>}
\* '<prefix>By<Field><Operator>'
Synth(p, f, o) == p \o <<"B", "y">> \o f \o o
SynthNames ==
    {Synth(Prefixes[p], FieldNames[f], o) :
        p \in 1..Len(Prefixes), f \in 1..Len(FieldNames), o \in OperatorTokens}
\* Names outside the '<prefix>By<Field><Operator>' scheme: several
\* conditions, OrderBy clauses, no condition at all
OtherNames == {
    <<"f", "i", "n", "d", "B", "y", "A", "g", "e", "G", "r", "e", "a", "t", "e", "r", "T", "h", "a", "n", "A", "n", "d", "A", "c", "t", "i", "v", "e", "O", "r", "d", "e", "r", "B", "y", "N", "a", "m", "e", "D", "e", "s", "c">>,
    <<"f", "i", "n", "d", "B", "y", "E", "m", "a", "i", "l", "O", "r", "d", "e", "r", "B", "y", "N", "a", "m", "e">>, <<"c", "o", "u", "n", "t", "B", "y", "A", "c", "t", "i", "v", "e", "O", "r", "d", "e", "r", "B", "y", "N", "a", "m", "e">>,
    <<"f", "i", "n", "d", "B", "y", "E", "m", "a", "i", "l", "O", "r", "d", "e", "r", "B", "y", "A", "g", "e", "A", "s", "c", "A", "n", "d", "N", "a", "m", "e", "D", "e", "s", "c">>,
    <<"f", "i", "n", "d", "B", "y", "A", "g", "e", "A", "n", "d", "A", "g", "e">>, <<"f", "i", "n", "d", "B", "y", "E", "m", "a", "i", "l", "O", "r", "A", "g", "e">>, <<"d", "e", "l", "e", "t", "e", "B", "y", "E", "m", "a", "i", "l", "A", "n", "d", "A", "g", "e">>,
    <<"f", "i", "n", "d", "B", "y", "A", "c", "t", "i", "v", "e", "T", "r", "u", "e", "A", "n", "d", "A", "g", "e", "B", "e", "t", "w", "e", "e", "n", "A", "n", "d", "E", "m", "a", "i", "l">>, <<"e", "x", "i", "s", "t", "s", "B", "y", "A", "g", "e", "B", "e", "t", "w", "e", "e", "n", "O", "r", "E", "m", "a", "i", "l", "I", "n">>,
    <<"f", "i", "n", "d", "B", "y", "O", "r", "d", "e", "r", "I", "d">>,
    <<"f", "i", "n", "d", "B", "y">>, <<"c", "o", "u", "n", "t", "B", "y">>, <<"d", "e", "l", "e", "t", "e", "B", "y">>, <<"e", "x", "i", "s", "t", "s", "B", "y">>,
    <<"c", "o", "u", "n", "t", "B", "y", "O", "r", "d", "e", "r", "B", "y", "N", "a", "m", "e">>, <<"f", "i", "n", "d", "B", "y", "O", "r", "d", "e", "r", "B", "y", "N", "a", "m", "e", "D", "e", "s", "c">>, <<"d", "e", "l", "e", "t", "e", "B", "y", "A", "n", "d">>}
\* Names that do not begin with an operation followed by 'By'
ForeignNames == {
    <<"g", "e", "t", "B", "y", "N", "a", "m", "e">>, <<"f", "i", "n", "d", "A", "l", "l">>, <<"f", "i", "n", "d", "b", "y", "N", "a", "m", "e">>, <<"F", "i", "n", "d", "B", "y", "N", "a", "m", "e">>, <<"f", "i", "n", "d">>,
    <<"f", "i", "n", "d", "N", "a", "m", "e">>, <<"B", "y", "N", "a", "m", "e">>, <<"s", "e", "l", "e", "c", "t", "B", "y", "N", "a", "m", "e">>, <<"x", "f", "i", "n", "d", "B", "y", "N", "a", "m", "e">>,
    <<"f", "i", "n", "d", "_", "b", "y", "_", "n", "a", "m", "e">>, <<"c", "o", "u", "n", "t", "A", "l", "l", "B", "y", "N", "a", "m", "e">>, <<"d", "e", "l", "e", "t", "e", "N", "a", "m", "e">>, <<"e", "x", "i", "s", "t", "s", "b", "y">>}
Names == SynthNames \cup OtherNames \cup ForeignNames

\* ParsedQuery objects built directly: up to MaxParts parts, any member of
\* QueryCondition as operator, connectors as the parser sets them
PartFields == {<<"a", "g", "e">>, <<"e", "m", "a", "i", "l">>}
Operators == {QueryCondition[k].member : k \in 1..Len(QueryCondition)}
QueryParts(most) ==
    UNION {[1..n -> [field : PartFields, operator : Operators]] :
              n \in 0..most}
Connected(ps) ==
    [i \in 1..Len(ps) |->
        [field |-> ps[i].field, operator |-> ps[i].operator,
         connector |-> IF i = 1 THEN <<>> ELSE <<"A", "N", "D">>]]
OrderBys == {<<>>, <<[field |-> <<"n", "a", "m", "e">>, direction |-> <<"D", "E", "S", "C">>]>>}
ParsedQueries(most) ==
    {[status |-> "ok", operation |-> QueryOperation[o],
      parts |-> Connected(ps), order_by |-> ob] :
        o \in 1..Len(QueryOperation), ps \in QueryParts(most), ob \in OrderBys}

\* Either a method name to parse, or a ParsedQuery handed to the generator
\* as it is.
InitParse ==
    /\ ctl = <<>>
    /\ last = NoLast
    /\ op = "init"
    /\ cnt = NoCnt
    /\ scn = 0
    /\ gen = [status |-> "none"]
    /\ gw = NoGateway
    /\ rq = NoRepo
    /\ env = NoEnv
    /\ ret = NoRet
    /\ \/ name \in Names /\ parsed = [status |-> "none"]
       \/ name = <<>> /\ parsed \in ParsedQueries(MaxParts)

\* QueryMethodParser().parse(name)
Parse ==
    /\ parsed.status = "none"
    /\ parsed' = parse(name)
    /\ op' = "parse"
    /\ UNCHANGED <<gw, ctl, last, cnt, scn, name, gen, rq, env, ret>>

\* SQLQueryGenerator(TableName).generate(parsed)
Generate ==
    /\ parsed.status = "ok"
    /\ gen.status = "none"
    /\ gen' = generate(TableName, parsed)
    /\ op' = "generate"
    /\ UNCHANGED <<gw, ctl, last, cnt, scn, name, parsed, rq, env, ret>>

\* The positional arguments of a call, each one its own value, and the
\* keyword arguments: every parameter name given a value of its own
Args(n) == [i \in 1..n |-> [positional |-> i]]
RECURSIVE KwargsFrom(_, _)
KwargsFrom(param_names, i) ==
    IF i = 0 THEN <<>>
    ELSE DictSet(KwargsFrom(param_names, i - 1), param_names[i],
                 [keyword |-> param_names[i]])

NextParse == Parse \/ Generate

\* The parser and the generator run on one method name or one ParsedQuery.
SpecParse == InitParse /\ [][NextParse]_vars

\* Method names accessed on the repository: derived names of every
\* operation, snake_case spellings, a name that holds the letters 'pass',
\* names that do not parse and names that are no derived names at all
RepoNames == {
    <<"f", "i", "n", "d", "B", "y", "E", "m", "a", "i", "l">>, <<"f", "i", "n", "d", "B", "y", "A", "g", "e", "B", "e", "t", "w", "e", "e", "n">>, <<"f", "i", "n", "d", "B", "y", "A", "g", "e", "A", "n", "d", "A", "g", "e">>,
    <<"f", "i", "n", "d", "B", "y", "A", "g", "e", "G", "r", "e", "a", "t", "e", "r", "T", "h", "a", "n", "A", "n", "d", "E", "m", "a", "i", "l">>, <<"f", "i", "n", "d", "B", "y", "A", "c", "t", "i", "v", "e", "T", "r", "u", "e">>,
    <<"c", "o", "u", "n", "t", "B", "y", "A", "c", "t", "i", "v", "e">>, <<"e", "x", "i", "s", "t", "s", "B", "y", "E", "m", "a", "i", "l">>, <<"d", "e", "l", "e", "t", "e", "B", "y", "E", "m", "a", "i", "l">>,
    <<"f", "i", "n", "d", "_", "b", "y", "_", "e", "m", "a", "i", "l">>, <<"d", "e", "l", "e", "t", "e", "_", "b", "y", "_", "u", "s", "e", "r", "_", "n", "a", "m", "e">>, <<"c", "o", "u", "n", "t", "_", "b", "y", "_", "a", "g", "e", "_", "b", "e", "t", "w", "e", "e", "n">>,
    <<"f", "i", "n", "d", "B", "y", "A", "g", "e", "I", "s", "N", "u", "l", "l">>, <<"f", "i", "n", "d", "B", "y", "A", "g", "e", "G", "r", "e", "a", "t", "e", "r", "T", "h", "a", "n", "E", "q", "u", "a", "l">>,
    <<"f", "i", "n", "d", "_", "b", "y", "_", "a", "g", "e", "_", "i", "s", "_", "n", "u", "l", "l">>, <<"d", "e", "l", "e", "t", "e", "B", "y">>,
    <<"f", "i", "n", "d", "_", "b", "y", "_", "a", "d", "d", "r", "e", "s", "s", "_", "2">>, <<"e", "x", "i", "s", "t", "s", "_", "b", "y", "_", "a", "_", "b">>, <<"f", "i", "n", "d", "B", "y", "P", "a", "s", "s", "w", "o", "r", "d">>}
        \cup ForeignNames

\* A repository whose class defines rq.stub under the name, on a table that
\* holds the rows Items.
InitRepo ==
    /\ gw = [NoGateway EXCEPT !.view = Items, !.store = Items]
    /\ ctl = <<>>
    /\ last = NoLast
    /\ op = "init"
    /\ cnt = NoCnt
    /\ scn = 0
    /\ name \in RepoNames
    /\ parsed = [status |-> "none"]
    /\ gen = [status |-> "none"]
    /\ \E s \in Stubs(name) : rq = [NoRepo EXCEPT !.stub = s]
    /\ env = NoEnv
    /\ ret = NoRet

\* getattr(repository, name): one access of the attribute.  A derived name
\* is parsed and its statement generated before the executor is returned.
Access ==
    /\ name # <<>>
    /\ rq.accesses < MaxAccess
    /\ \E method_name \in {DerivedName(name, rq.stub)} :
       \E parsed_query \in {IF method_name # NoName THEN parse(method_name)
                            ELSE [status |-> "none"]} :
       \E g \in {IF parsed_query.status = "ok"
                 THEN generate(TableName, parsed_query)
                 ELSE [status |-> "none"]} :
       \E m \in {__getattribute__(method_name, rq.stub,
                    _create_query_method(parsed_query, g, rq.stub))} :
           rq' = [rq EXCEPT !.accesses = @ + 1,
                            !.compiles = IF g.status = "none"
                                         THEN @ ELSE @ + 1,
                            !.method = m]
    /\ op' = "access"
    /\ UNCHANGED <<gw, ctl, last, cnt, scn, name, parsed, gen, env, ret>>

\* await method(*args, **kwargs) on the executor obtained last:
\* query_executor builds params, execute_query binds them into the
\* statement and executes it
Call(nargs, kw, rows) ==
    /\ rq.method.status = "executor"
    /\ rq.gwops < MaxExec
    /\ nargs <= Len(rq.method.param_names)
    /\ \E args \in {Args(nargs)},
          kwargs \in {IF kw THEN KwargsFrom(rq.method.param_names,
                                            Len(rq.method.param_names))
                      ELSE <<>>} :
       \E params \in {ParamsFrom(rq.method.param_names, args, kwargs, 1,
                                 <<>>)} :
       \E sql_alchemy \in {BindFrom(rq.method.sql, params, 1)} :
       \E x \in {execute_query(gw, sql_alchemy, params,
                               rq.method.operation, rows)} :
       \E r \in {query_executor(rq.method, x, rows)} :
           /\ gw' = r.g
           /\ rq' = [rq EXCEPT !.gwops = @ + 1,
                        !.call = [status |-> "done", args |-> args,
                                  kwargs |-> kwargs, rows |-> rows,
                                  statement |-> r.statement,
                                  param_values |-> r.param_values,
                                  raised |-> r.raised,
                                  result |-> r.result]]
    /\ op' = "call"
    /\ UNCHANGED <<ctl, last, cnt, scn, name, parsed, gen, env, ret>>

NextRepo ==
    \/ Parse
    \/ Generate
    \/ Access
    \/ \E nargs \in 0..MaxArgs, kw \in BOOLEAN, rows \in ResultRows(gw.view) :
           Call(nargs, kw, rows)

\* A repository's derived method accessed and called, next to the parser
\* and the generator run on the same name.
SpecRepo == InitRepo /\ [][NextRepo]_vars

\* ================================================================ claims
\* The repository operations that write.
WriteOps == {"save", "update", "delete", "deleteBy", "delete_by_id",
             "save_all", "delete_all", "delete_all_by_id"}

\* C1: after a top-level Transactional unit of work returns normally, every
\* write it made through the repository is committed to the backing store,
\* whatever ran on the gateway before the boundary began.
C1_WritesCommittedOnReturn ==
    (last.outcome = "returned" /\ last.top) =>
        \A i \in last.log : i \in gw.store

\* C2: when the unit of work raises an Exception, the boundary calls
\* rollback() exactly once, never commit(), and propagates that very
\* failure to its caller.
C2_RollbackOnceAndReraise ==
    (last.thrown # "none" /\ IsException(last.thrown)) =>
        /\ last.outcome = "raised"
        /\ last.calls = <<"rollback">>
        /\ last.exc = last.thrown
        /\ ctl # <<>> => Top.pending = last.thrown

C2_Witness ==
    /\ last.thrown = "ValueError"
    /\ last.outcome = "raised"
    /\ last.log # NoLog

\* C3: when a top-level Transactional unit of work raises after writing,
\* the store holds none of its writes once the failure has been propagated
\* and is what it was when the boundary began.
C3_NoWriteSurvivesRaise ==
    (last.outcome = "raised" /\ last.top /\ last.thrown # "none"
        /\ last.log # NoLog) =>
        gw.store = last.store0

\* C4: a boundary that finishes, by return or by a failure of the unit, of
\* begin_transaction() or of commit(), leaves as many frames on the
\* transaction stack as it found.
C4_NetZeroFrames ==
    last.outcome \in {"returned", "raised"} =>
        Len(gw.stack) = last.start

\* C5: when the unit of work is cancelled while its frame is open, the frame
\* is rolled back and removed before the boundary exits.
C5_CancelRemovesFrame ==
    last.outcome = "cancelled" =>
        /\ Len(gw.stack) = last.start
        /\ last.calls = <<"rollback">>

RollbackOfNested ==
    (op' = "rollback" /\ gw.stack # <<>>
        /\ gw.txs[gw.stack[Len(gw.stack)]].nested) =>
        /\ Written(gw') = gw.txs[gw.stack[Len(gw.stack)]].snap
        /\ gw'.stack = SubSeq(gw.stack, 1, Len(gw.stack) - 1)
        /\ gw'.store = gw.store

\* begin, write A, begin, write B, rollback leaves the outer frame open with
\* A pending; the commit that follows stores A and not B.
ScenarioOutcome ==
    /\ scn = 5 => (Len(gw.stack) = 1 /\ Written(gw) = {"A"} /\ gw.store = {})
    /\ scn = 6 => (gw.stack = <<>> /\ gw.store = {"A"})

\* C7: rolling back a Nested frame discards exactly the writes made since
\* that frame began: after begin, write A, begin, write B, rollback, commit
\* the store holds A and not B, and the outer frame stays open in between.
C7_NestedRollback == []ScenarioOutcome /\ [][RollbackOfNested]_vars

C7_Witness == scn = 6

\* C8: while a frame is open, save, update, delete and a derived Delete
\* query do not commit: the store and the stack stay as they are and the
\* session stays in its transaction.
C8_NoCommitInsideFrame ==
    [][(op' \in WriteOps /\ gw.stack # <<>>) =>
        /\ gw'.store = gw.store
        /\ gw'.stack = gw.stack
        /\ in_transaction(gw')]_vars

C8_Witness ==
    /\ op \in {"update", "delete", "delete_by_id", "delete_all"}
    /\ gw.stack # <<>>
    /\ Written(gw) # gw.store
    /\ gw.marked # {}

\* C9: save, update or delete called while no frame is open commits the
\* write before it returns; nothing stays pending in the session.
C9_AutoCommitOutsideFrames ==
    (op \in {"save", "update", "delete"} /\ ret.kind # "raised"
        /\ gw.stack = <<>>) =>
        /\ gw.store = Written(gw)
        /\ ~in_transaction(gw)

\* The member of QueryCondition whose value is the operator token o.
MemberOf(o) ==
    QueryCondition[CHOOSE k \in 1..Len(QueryCondition) :
                       QueryCondition[k].value = o].member

\* C10: for every prefix and every operator of the grammar, parse of
\* '<prefix>By<Field><Operator>' returns a ParsedQuery whose operation is the
\* prefix and whose single part carries exactly that operator.
C10_EveryOperatorParses ==
    \A p \in 1..Len(Prefixes), f \in 1..Len(FieldNames), o \in OperatorTokens :
        (name = Synth(Prefixes[p], FieldNames[f], o)
            /\ parsed.status # "none") =>
            /\ parsed.status = "ok"
            /\ parsed.operation = Prefixes[p]
            /\ Len(parsed.parts) = 1
            /\ parsed.parts[1].operator = MemberOf(o)

\* C11: an atom that ends with GreaterThanEqual or LessThanEqual parses to
\* that operator and not to the shorter GreaterThan or LessThan:
\* parse('findByAgeGreaterThanEqual') yields the single part age
\* GreaterThanEqual.
C11_LongestOperator ==
    \A p \in 1..Len(Prefixes), f \in 1..Len(FieldNames),
       o \in {<<"G", "r", "e", "a", "t", "e", "r", "T", "h", "a", "n", "E", "q", "u", "a", "l">>, <<"L", "e", "s", "s", "T", "h", "a", "n", "E", "q", "u", "a", "l">>} :
        (name = Synth(Prefixes[p], FieldNames[f], o)
            /\ parsed.status # "none") =>
            /\ parsed.status = "ok"
            /\ Len(parsed.parts) = 1
            /\ parsed.parts[1].field = _camel_to_snake(FieldNames[f])
            /\ parsed.parts[1].operator = MemberOf(o)
            /\ name = <<"f", "i", "n", "d", "B", "y", "A", "g", "e", "G", "r", "e", "a", "t", "e", "r", "T", "h", "a", "n", "E", "q", "u", "a", "l">>
                   => parsed.parts[1].field = <<"a", "g", "e">>

ZeroArityTokens == {<<"I", "s", "N", "u", "l", "l">>, <<"I", "s", "N", "o", "t", "N", "u", "l", "l">>, <<"T", "r", "u", "e">>, <<"F", "a", "l", "s", "e">>}

\* C12: a name whose condition uses IsNull, IsNotNull, True or False parses,
\* and the statement generated for it holds no '?' and lists no parameter
\* for the field.
C12_ZeroArityOperators ==
    \A p \in 1..Len(Prefixes), f \in 1..Len(FieldNames),
       o \in ZeroArityTokens :
        (name = Synth(Prefixes[p], FieldNames[f], o)
            /\ parsed.status # "none") =>
            /\ parsed.status = "ok"
            /\ Len(parsed.parts) = 1
            /\ parsed.parts[1].operator = MemberOf(o)
            /\ gen.status # "none" =>
                   /\ gen.status = "ok"
                   /\ ~contains(gen.sql, <<"?">>)
                   /\ gen.params = <<>>

\* Names with an operation and 'By' but no condition atom
NoAtomNames == {
    <<"f", "i", "n", "d", "B", "y">>, <<"c", "o", "u", "n", "t", "B", "y">>, <<"d", "e", "l", "e", "t", "e", "B", "y">>, <<"e", "x", "i", "s", "t", "s", "B", "y">>,
    <<"c", "o", "u", "n", "t", "B", "y", "O", "r", "d", "e", "r", "B", "y", "N", "a", "m", "e">>, <<"f", "i", "n", "d", "B", "y", "O", "r", "d", "e", "r", "B", "y", "N", "a", "m", "e", "D", "e", "s", "c">>}

\* C13: parse fails for a name that has no condition atom after 'By'; no
\* name parses to a ParsedQuery without parts, so no statement derived from a
\* name lacks its WHERE clause.
C13_EmptyConditionsRejected ==
    /\ (name \in NoAtomNames /\ parsed.status # "none") =>
           parsed.status = "error"
    /\ (name # <<>> /\ parsed.status = "ok") => parsed.parts # <<>>
    /\ (name # <<>> /\ gen.status = "ok") => contains(gen.sql, <<" ", "W", "H", "E", "R", "E", " ">>)

\* The name starts with find, count, delete or exists followed by 'By'.
HasOperationPrefix(n) ==
    \E k \in 1..Len(QueryOperation) :
        startswith(n, QueryOperation[k] \o <<"B", "y">>)

\* The access of the name is dispatched to _create_query_method, which
\* parses ParsedName.
Dispatched ==
    /\ rq.accesses > 0
    /\ FirstLook(rq.stub) = "derive"
    /\ StartsWithAny(name, CamelPrefixes \cup SnakePrefixes)
ParsedName ==
    IF StartsWithAny(name, CamelPrefixes) THEN name
    ELSE _snake_to_camel_method(name)

\* C14: parse raises for every name that does not start with an operation
\* followed by 'By'; accessing a derived name that does not parse raises at
\* the access, and nothing was executed on the gateway.
C14_InvalidNamesRejected ==
    /\ (~HasOperationPrefix(name) /\ parsed.status # "none") =>
           (parsed.status = "error" /\ parsed.raised = "ValueError")
    /\ (Dispatched /\ parse(ParsedName).status # "ok") =>
           /\ rq.method.status = "raised"
           /\ rq.method.raised = "ValueError"
           /\ rq.gwops = 0
           /\ gw = [NoGateway EXCEPT !.view = Items, !.store = Items]

C14_Witness ==
    /\ name = <<"f", "i", "n", "d", "_", "b", "y", "_", "a", "g", "e", "_", "i", "s", "_", "n", "u", "l", "l">>
    /\ rq.accesses = 2
    /\ rq.method.status = "raised"
    /\ parsed.status = "error"

\* The positions of the '?' placeholders of a statement, left to right
RECURSIVE PlaceholdersFrom(_, _)
PlaceholdersFrom(sql, i) ==
    IF i > Len(sql) THEN <<>>
    ELSE (IF sql[i] = "?" THEN <<i>> ELSE <<>>) \o PlaceholdersFrom(sql, i + 1)
Placeholders(sql) == PlaceholdersFrom(sql, 1)

\* The column a placeholder belongs to: the last lower-case identifier that
\* the statement holds before position i (keywords are upper case).
IsIdentChar(c) == IsLower(c) \/ IsDigit(c) \/ c = "_"
ColumnBefore(sql, i) ==
    LET ends == {j \in 1..(i - 1) : IsIdentChar(sql[j])}
        last_ == CHOOSE j \in ends : \A k \in ends : k <= j
        starts == {j \in 1..last_ : \A k \in j..last_ : IsIdentChar(sql[k])}
        first == CHOOSE j \in starts : \A k \in starts : j <= k
    IN  IF ends = {} THEN <<>> ELSE SubSeq(sql, first, last_)

\* C15: the statement generate returns holds as many '?' as paramOrder has
\* entries, and the i-th '?' stands in the fragment of the field
\* paramOrder[i].
C15_PlaceholdersMatchParams ==
    gen.status = "ok" =>
        /\ Len(Placeholders(gen.sql)) = Len(gen.params)
        /\ \A i \in 1..Len(gen.params) :
               ColumnBefore(gen.sql, Placeholders(gen.sql)[i]) = gen.params[i]

C15_Witness ==
    /\ gen.status = "ok"
    /\ gen.params = <<<<"a", "g", "e">>, <<"a", "g", "e">>, <<"e", "m", "a", "i", "l">>>>
    /\ Len(Placeholders(gen.sql)) = 3

\* The opening of the statement of each operation, on the table users
StatementHead(operation) ==
    IF operation = <<"f", "i", "n", "d">> THEN <<"S", "E", "L", "E", "C", "T", " ", "*", " ", "F", "R", "O", "M", " ", "u", "s", "e", "r", "s">>
    ELSE IF operation = <<"c", "o", "u", "n", "t">> THEN <<"S", "E", "L", "E", "C", "T", " ", "C", "O", "U", "N", "T", "(", "*", ")", " ", "F", "R", "O", "M", " ", "u", "s", "e", "r", "s">>
    ELSE IF operation = <<"d", "e", "l", "e", "t", "e">> THEN <<"D", "E", "L", "E", "T", "E", " ", "F", "R", "O", "M", " ", "u", "s", "e", "r", "s">>
    ELSE <<"S", "E", "L", "E", "C", "T", " ", "E", "X", "I", "S", "T", "S", "(", "S", "E", "L", "E", "C", "T", " ", "1", " ", "F", "R", "O", "M", " ", "u", "s", "e", "r", "s">>

\* C16: the statement begins as its operation prescribes (an Exists
\* statement is closed by ')'), holds a WHERE clause exactly when the query
\* has parts and an ORDER BY clause exactly for a Find with an order;
\* generate(parse('findByEmail'), 'users') is
\* ('SELECT * FROM users WHERE email = ?', ['email']).
C16_StatementShape ==
    gen.status = "ok" =>
        /\ startswith(gen.sql, StatementHead(parsed.operation))
        /\ parsed.operation = <<"e", "x", "i", "s", "t", "s">> => endswith(gen.sql, <<")">>)
        /\ contains(gen.sql, <<" ", "W", "H", "E", "R", "E", " ">>) <=> parsed.parts # <<>>
        /\ contains(gen.sql, <<" ", "O", "R", "D", "E", "R", " ", "B", "Y", " ">>) <=>
               (parsed.operation = <<"f", "i", "n", "d">> /\ parsed.order_by # <<>>)
        /\ (parsed.parts = <<>> /\ ~contains(gen.sql, <<" ", "O", "R", "D", "E", "R", " ", "B", "Y", " ">>)) =>
               gen.sql = StatementHead(parsed.operation)
                           \o (IF parsed.operation = <<"e", "x", "i", "s", "t", "s">>
                               THEN <<")">> ELSE <<>>)
        /\ name = <<"f", "i", "n", "d", "B", "y", "E", "m", "a", "i", "l">> =>
               /\ gen.sql = <<"S", "E", "L", "E", "C", "T", " ", "*", " ", "F", "R", "O", "M", " ", "u", "s", "e", "r", "s", " ", "W", "H", "E", "R", "E", " ", "e", "m", "a", "i", "l", " ", "=", " ", "?">>
               /\ gen.params = <<<<"e", "m", "a", "i", "l">>>>

C16_Witness ==
    /\ name = <<"f", "i", "n", "d", "B", "y", "E", "m", "a", "i", "l">>
    /\ gen.status = "ok"
    /\ gen.params = <<<<"e", "m", "a", "i", "l">>>>

\* C17: generate(parse('findByAgeGreaterThanAndActiveOrderByNameDesc'),
\* 'users') has the WHERE clause 'age > ? AND active = TRUE', ends in
\* 'ORDER BY name DESC' and has exactly ['age'] as paramOrder.
C17_MixedArityExample ==
    (name = <<"f", "i", "n", "d", "B", "y", "A", "g", "e", "G", "r", "e", "a", "t", "e", "r", "T", "h", "a", "n", "A", "n", "d", "A", "c", "t", "i", "v", "e", "O", "r", "d", "e", "r", "B", "y", "N", "a", "m", "e", "D", "e", "s", "c">>
        /\ parsed.status # "none") =>
        /\ parsed.status = "ok"
        /\ gen.status # "none" =>
               /\ gen.status = "ok"
               /\ contains(gen.sql, <<" ", "W", "H", "E", "R", "E", " ", "a", "g", "e", " ", ">", " ", "?", " ", "A", "N", "D", " ", "a", "c", "t", "i", "v", "e", " ", "=", " ", "T", "R", "U", "E">>)
               /\ endswith(gen.sql, <<" ", "O", "R", "D", "E", "R", " ", "B", "Y", " ", "n", "a", "m", "e", " ", "D", "E", "S", "C">>)
               /\ gen.params = <<<<"a", "g", "e">>>>

\* C18: however often a derived method name is accessed and called on a
\* repository instance, the name is parsed and its SQL generated at most
\* once; later accesses reuse the compiled pair.
C18_CompiledOnce == rq.compiles <= 1

\* The parameter markers of an executed statement, left to right: a '?'
\* left as it was, or ':' and the name that follows it
RECURSIVE MarkersFrom(_, _)
MarkersFrom(stmt, i) ==
    IF i > Len(stmt) THEN <<>>
    ELSE (IF stmt[i] \in {"?", ":"} THEN <<i>> ELSE <<>>)
            \o MarkersFrom(stmt, i + 1)
Markers(stmt) == MarkersFrom(stmt, 1)
MarkerName(stmt, i) ==
    LET run == {j \in i..Len(stmt) :
                   \A k \in (i + 1)..j : IsIdentChar(stmt[k])}
        end == CHOOSE j \in run : \A k \in run : k <= j
    IN  SubSeq(stmt, i + 1, end)

\* C19: a derived method called with as many positional arguments as
\* paramOrder has entries executes a statement in which no '?' is left and
\* whose i-th marker is bound to the i-th argument.
C19_ArgumentsBoundInOrder ==
    (rq.call.status = "done"
        /\ Len(rq.call.args) = Len(rq.method.param_names)) =>
        LET stmt == rq.call.statement
            ms == Markers(stmt)
        IN  /\ ~contains(stmt, <<"?">>)
            /\ Len(ms) = Len(rq.call.args)
            /\ \A i \in 1..Len(ms) :
                   /\ HasKey(rq.call.param_values, MarkerName(stmt, ms[i]))
                   /\ DictGet(rq.call.param_values, MarkerName(stmt, ms[i]))
                          = rq.call.args[i]
            /\ rq.call.raised = "none"

\* C20: a derived Find returns the whole list of matching entities when the
\* stub declares a list or declares no return type, and the first matching
\* entity, or None when there is none, when the stub declares a type that is
\* no collection.
C20_ReturnShape ==
    (rq.call.status = "done" /\ rq.call.raised = "none"
        /\ rq.method.operation = <<"f", "i", "n", "d">>) =>
        /\ (rq.stub.defined # "method"
               \/ rq.stub.returns \in {"unannotated", "List[T]", "list[T]",
                                        "list"}) =>
               rq.call.result = [kind |-> "list", rows |-> rq.call.rows]
        /\ (rq.stub.defined = "method"
               /\ rq.stub.returns \in {"T", "Optional[T]"}) =>
               rq.call.result =
                   IF rq.call.rows = <<>> THEN [kind |-> "None"]
                   ELSE [kind |-> "entity", row |-> rq.call.rows[1]]

\* What count() returns on gateway g, NoCount when it raises.
NoCount == 0 - 1
CountOf(g) ==
    LET F(r) == IF r.result.kind = "scalar" THEN r.result.value ELSE NoCount
    IN  F(count(g))

\* C21: every save of an entity that the repository does not hold yet, when
\* it returns, raises what count() returns by one, so n successful saves of
\* n new entities after a count of c give a count of c + n.
C21_CountAfterSaves ==
    [][\A e \in Items :
          (RepoSave(e, "new") /\ ret'.kind = "entity") =>
              /\ CountOf(gw) # NoCount
              /\ CountOf(gw') = CountOf(gw) + 1]_vars

C21_Witness ==
    /\ op = "save"
    /\ ret.kind = "entity"
    /\ CountOf(gw) = Cardinality(Items)

\* What the frame at position k of the transaction stack is: "Root" for a
\* real transaction, "Nested" for a savepoint.
FrameKind(g, k) ==
    IF g.stack[k] > Len(g.txs) THEN "Closed"
    ELSE IF g.txs[g.stack[k]].nested THEN "Nested"
    ELSE "Root"

\* The stack is empty, or one Root frame with only Nested frames above it.
RootThenNested(g) ==
    \A k \in 1..Len(g.stack) :
        FrameKind(g, k) = IF k = 1 THEN "Root" ELSE "Nested"

\* begin_transaction pushes one frame: a Root frame on an empty stack, a
\* Nested frame on any other.
BeginPushesByStack ==
    (op' = "begin" /\ ret'.kind # "raised") =>
        /\ Len(gw'.stack) = Len(gw.stack) + 1
        /\ FrameKind(gw', Len(gw'.stack)) =
               IF gw.stack = <<>> THEN "Root" ELSE "Nested"

\* C23: the transaction stack is always empty or one Root frame at the
\* bottom with only Nested frames above it, and begin_transaction pushes a
\* Root frame exactly when the stack is empty, whatever ran on the session
\* before.
C23_RootBelowNested == [][BeginPushesByStack]_vars /\ []RootThenNested(gw)

\* commit() on a non-empty stack removes the top frame and leaves the
\* frames below as they are, open.  When it returns, it has released the
\* savepoint of a Nested top frame alone, or committed the session for a
\* Root one; when the session's commit raises, nothing was released or
\* committed.
CommitOfTopFrame ==
    (op' = "commit" /\ gw.stack # <<>>) =>
        /\ gw'.stack = SubSeq(gw.stack, 1, Len(gw.stack) - 1)
        /\ \A k \in 1..Len(gw'.stack) : FrameKind(gw', k) = FrameKind(gw, k)
        /\ IF ret'.kind = "raised"
           THEN /\ gw'.store = gw.store
                /\ Transactions(gw') = Transactions(gw)
           ELSE /\ Written(gw') = Written(gw)
                /\ IF FrameKind(gw, Len(gw.stack)) = "Nested"
                   THEN /\ gw'.store = gw.store
                        /\ Transactions(gw') =
                               SubSeq(Transactions(gw), 1,
                                      gw.stack[Len(gw.stack)] - 1)
                   ELSE /\ gw'.store = Written(gw)
                        /\ gw'.txs = <<>>

FallbackOnEmptyStack ==
    (op' \in {"commit", "rollback"} /\ gw.stack = <<>>) =>
        /\ gw'.stack = <<>>
        /\ gw'.open
        /\ ~in_transaction(gw')
        /\ IF op' = "commit"
           THEN /\ ~commit(gw, FALSE).raised
                /\ gw'.store = Written(gw)
                /\ Written(gw') = Written(gw)
           ELSE /\ Written(gw') = gw.store
                /\ gw'.store = gw.store

\* C25 as stated: commit() or rollback() on an empty transaction stack
\* raises no error: it commits or rolls back the session directly and
\* leaves the stack empty.
C25_EmptyStackFallback == [][FallbackOnEmptyStack]_vars

\* commit() and rollback() on an empty stack push nothing and add no error
\* of their own.  rollback() is Session.rollback() and does not raise.
\* commit() is Session.commit(): it raises what that raises, which is when
\* the session's transaction is inactive after a failed flush or when the
\* flush of a pending deletion fails, and then nothing is committed.
FallbackOutcome ==
    (op' \in {"commit", "rollback"} /\ gw.stack = <<>>) =>
        /\ gw'.stack = <<>>
        /\ gw'.open
        /\ IF op' = "rollback"
           THEN /\ ret'.kind = "None"
                /\ ~in_transaction(gw')
                /\ Written(gw') = gw.store
                /\ gw'.store = gw.store
           ELSE IF gw.deactive \/ Stale(gw) # {}
           THEN /\ ret'.kind = "raised"
                /\ ret'.exc = IF gw.deactive THEN PendingRollbackError
                              ELSE ObjectDeletedError
                /\ gw'.store = gw.store
                /\ in_transaction(gw')
                /\ gw'.deactive
           ELSE /\ ret'.kind = "None"
                /\ ~in_transaction(gw')
                /\ gw'.store = Written(gw)
                /\ Written(gw') = Written(gw)

\* C25, amended: commit() or rollback() on an empty transaction stack
\* commits or rolls back the session directly and leaves the stack empty;
\* rollback() raises no error, commit() only what the session's commit
\* raises.
C25_EmptyStackOutcome == [][FallbackOutcome]_vars

C25_Witness ==
    /\ op = "commit"
    /\ cnt.onEmpty
    /\ cnt.begin = 0
    /\ ret.kind = "raised"
    /\ gw.deactive

\* The store changes only on a step that commits the root transaction: a
\* commit() whose top frame is Root, a commit() on an empty stack, or a
\* repository operation outside every frame.
DurableOnlyByRootCommit ==
    gw'.store # gw.store =>
        \/ op' = "commit" /\ gw.stack = <<>>
        \/ op' = "commit" /\ gw.stack # <<>>
              /\ FrameKind(gw, Len(gw.stack)) = "Root"
        \/ op' \in WriteOps /\ gw.stack = <<>>

\* begin, begin, write B, commit leaves the Root frame open with B pending;
\* the rollback that follows discards B and leaves no frame.
NestedCommitOutcome ==
    /\ scn = InNestedCommit(4) =>
          (Len(gw.stack) = 1 /\ FrameKind(gw, 1) = "Root"
              /\ Written(gw) = {"B"} /\ gw.store = {})
    /\ scn = InNestedCommit(5) =>
          (gw.stack = <<>> /\ "B" \notin gw.store /\ "B" \notin Written(gw)
              /\ ~in_transaction(gw))

\* C29: writes made inside a Nested frame that was committed become durable
\* only when the Root frame commits: after begin, begin, write B, commit,
\* rollback the store does not contain B and no frame is open.
C29_NestedCommitNotDurable ==
    []NestedCommitOutcome /\ [][DurableOnlyByRootCommit]_vars

C29_Witness == scn = InNestedCommit(Len(NestedCommitScenario))

\* The first part has no connector, every later part has AND or OR.
ConnectorsInPlace(parts) ==
    \A i \in 1..Len(parts) :
        IF i = 1 THEN parts[i].connector = <<>>
        ELSE parts[i].connector \in {<<"A", "N", "D">>, <<"O", "R">>}

\* C26: for every name that parse accepts, the first part has no connector
\* and every later part carries the connector that preceded its atom; there
\* is one part per condition atom, and a field name that contains the
\* letters 'And' or 'Or' is not split: 'findByOrderId' yields one part on
\* the field order_id, 'findByEmailOrAge' two parts joined by OR.
C26_ConnectorsFollowAtoms ==
    (name # <<>> /\ parsed.status = "ok") =>
        /\ ConnectorsInPlace(parsed.parts)
        /\ name = <<"f", "i", "n", "d", "B", "y", "O", "r", "d", "e", "r", "I", "d">> =>
              parsed.parts = <<[field |-> <<"o", "r", "d", "e", "r", "_", "i", "d">>,
                                operator |-> <<"E", "Q", "U", "A", "L", "S">>,
                                connector |-> <<>>]>>
        /\ name = <<"f", "i", "n", "d", "B", "y", "E", "m", "a", "i", "l", "O", "r", "A", "g", "e">> =>
              parsed.parts = <<[field |-> <<"e", "m", "a", "i", "l">>, operator |-> <<"E", "Q", "U", "A", "L", "S">>,
                                connector |-> <<>>],
                               [field |-> <<"a", "g", "e">>, operator |-> <<"E", "Q", "U", "A", "L", "S">>,
                                connector |-> <<"O", "R">>]>>

\* The words that the grammar reserves, in lower case: connectors, the
\* words of the operator tokens and of the OrderBy clause.
ReservedWords == {
    <<"a", "n", "d">>, <<"o", "r">>, <<"g", "r", "e", "a", "t", "e", "r">>, <<"l", "e", "s", "s">>, <<"t", "h", "a", "n">>, <<"e", "q", "u", "a", "l">>, <<"l", "i", "k", "e">>,
    <<"c", "o", "n", "t", "a", "i", "n", "i", "n", "g">>, <<"s", "t", "a", "r", "t", "i", "n", "g">>, <<"e", "n", "d", "i", "n", "g">>, <<"w", "i", "t", "h">>, <<"b", "e", "t", "w", "e", "e", "n">>, <<"i", "n">>,
    <<"n", "o", "t">>, <<"i", "s">>, <<"n", "u", "l", "l">>, <<"t", "r", "u", "e">>, <<"f", "a", "l", "s", "e">>, <<"o", "r", "d", "e", "r">>, <<"b", "y">>,
    <<"a", "s", "c">>, <<"d", "e", "s", "c">>}

\* <field> of a snake_case name '<op>_by_<field>'
SnakeField(n) ==
    LET p == CHOOSE x \in SnakePrefixes : startswith(n, x)
    IN  SubSeq(n, Len(p) + 1, Len(n))

\* Lowercase words of letters or digits joined by '_', none of them reserved
IsPlainField(f) ==
    /\ f # <<>>
    /\ \A w \in Range(split(f, <<"_">>)) :
          /\ w # <<>>
          /\ w \notin ReservedWords
          /\ \A i \in 1..Len(w) : IsLower(w[i]) \/ IsDigit(w[i])

\* C30: name normalization round-trips field names: for a snake_case name
\* '<op>_by_<field>' whose field is lowercase words of letters or digits
\* joined by '_' and holds no connector or operator word, the camelCase
\* name parses to one Equals part whose field is exactly <field>.
C30_NormalizationRoundTrip ==
    (rq.accesses > 0 /\ FirstLook(rq.stub) = "derive"
        /\ StartsWithAny(name, SnakePrefixes)
        /\ IsPlainField(SnakeField(name))) =>
        LET q == parse(_snake_to_camel_method(name))
        IN  /\ q.status = "ok"
            /\ q.parts = <<[field |-> SnakeField(name),
                            operator |-> <<"E", "Q", "U", "A", "L", "S">>,
                            connector |-> <<>>]>>

\* C22: a gateway session lives for one logical unit of work: the session
\* (and its transaction stack) that served one unit of work is never used
\* by a later or concurrent unit of work.
C22_SessionPerUnitOfWork ==
    \A i \in GatewayIds : Cardinality(env.served[i]) <= 1

\* A commit() or rollback() of a boundary removes the top frame of the
\* gateway's stack and notes nothing else: whose frame it is plays no part.
PopsTopFrameOfAnyUnit ==
    op' \in {"unit_commit", "unit_rollback"} =>
        LET i == env'.popped.gateway
        IN  /\ env.gws[i].stack # <<>> =>
                  /\ env'.gws[i].stack = Front(env.gws[i].stack)
                  /\ env'.popped.owner = TopOwner(env, i)
            /\ env'.units[env'.popped.by].pc = "idle"

\* C27: the transaction stack has no locking: when two Transactional units
\* of work interleave on one gateway, the commit or rollback of one unit
\* pops and acts on the top frame whoever pushed it, the other unit's
\* included.
C27_UnitsShareTheStack == [][PopsTopFrameOfAnyUnit]_vars

C27_Witness ==
    /\ env.popped.by \in Tasks
    /\ env.popped.owner \in Tasks
    /\ env.popped.owner # env.popped.by
    /\ env.units[env.popped.owner].pc = "unit"
    /\ env.units[env.popped.owner].gateway = env.popped.gateway

\* C28: within a Transactional boundary every repository operation runs on
\* the gateway on which the boundary called begin_transaction, whatever
\* set_orm_gateway calls and repository uses came before the boundary.
C28_RepositoryUsesBoundaryGateway ==
    (env.used.task # NoTask /\ ~env.used.swapped) =>
        env.used.gateway = env.used.boundary

====
